---------------------------- MODULE Spec2Model ----------------------------
(***************************************************************************)
(* Model of the csplm layered-image editor's project/export pipeline.      *)
(*                                                                         *)
(*   Spec         the export pipeline: TaskManager quick export (PNG/JPG), *)
(*                ExportManager.captureCanvas, exportSingle, exportBulk    *)
(*   SpecLive     Spec with every decode settling and every timer firing   *)
(*   SpecOpen     ProjectLoader.loadProjectFile and the two open paths     *)
(*   SpecConvert  ProjectLoader's layer converters                         *)
(*   SpecLoad     the layers of a file made into runtime layers, on both   *)
(*                hosts                                                    *)
(*   SpecPreset   the layer and preset handlers of the editor              *)
(*   SpecSession  a session of the editor over its layers, opens included  *)
(*   SpecPath     the save location over opens, edits and saves in the     *)
(*                native host                                              *)
(*   SpecSave     TaskManager.handleSave / handleSaveAs and reopening      *)
(*   SpecTask     TaskManager.executeTask and the handlers it calls        *)
(*   SpecOverlap  the export dialog with overlapping exports               *)
(*   SpecContext  a quick export while updateContext is called             *)
(*   SpecQueue    the export queue over sessions of the export dialog      *)
(*                                                                         *)
(* Every specification constrains all variables; the variables of the      *)
(* other parts stay at their idle value.                                   *)
(***************************************************************************)
EXTENDS Integers, Sequences, FiniteSets, TLC

VARIABLES
    \* ---- host application state (ImageEditor) ----
    layers,             \* Layer[]
    presets,            \* LayerPreset[]: sequence of [id, layer_states]
    canvasWidth,        \* a JavaScript value: Num(n) for the number n
    canvasHeight,
    selectedLayerId,    \* Str(id) of the layer selected in the panel, or Null
    \* ---- ExportManager state ----
    exportItems,        \* ExportItem[]: sequence of [id, preset, enabled]
    isExporting,
    exportProgress,
    currentExportName,  \* id of the item shown as "Exporting: ...", 0 for ""
    bulk,               \* exportBulk's frame: its locals and its await point
    hidden,             \* the hidden <canvas ref={canvasRef}> captureCanvas draws on
    \* ---- composites in flight, by caller ----
    run,                \* [Owners -> composite closure state]
    \* ---- platform ----
    isTauri,            \* '__TAURI__' in window
    sink,               \* the images handed to the browser for download
                        \* (downloadCanvas's link.click(), downloadImage calls), in order
    \* ---- observation of the bulk export ----
    events,             \* start/end of every bulk item's captureCanvas, in order
                        \* (ok: whether it resolved an image rather than "")
    \* ---- open (TaskManager.handleOpen / loadTauriProject) ----
    file,               \* the parsed JSON of the file the user selected
    openResult,         \* how far the open is and how it ended: st, the error
                        \* reported, and whether onLoadProject was invoked
    currentProjectPath, \* TaskManager.currentProjectPath ("" for undefined)
    \* ---- ProjectLoader converters ----
    inLayers,           \* the ProjectLayer sequence as it was handed to the converter
    projectLayers,      \* the same array object afterwards (sort() works in place)
    runtimeLayers,      \* result of convertProjectLayersToRuntimeLayers
    backLayers,         \* result of convertRuntimeLayersToProjectLayers
    convPc,
    failing,            \* loadLayersWithAssets: the positions in the file of the
                        \* layers whose asset resolution threw
    \* ---- editing: PresetManager and the layer handlers of ImageEditor ----
    now,                \* Date.now(), in milliseconds since the editor was opened
    lastOp,             \* the editing operation made last, with its arguments
    \* ---- TaskManager: context, dispatch, save ----
    context,            \* TaskManager.context: layers, canvasWidth, canvasHeight
    task,               \* the task handed to executeTask and what became of it
    written,            \* the project file that save wrote, and what it was written from
    isDialogOpen        \* ExportManager's dialog, which the bulk-export task opens

hostVars == <<layers, presets, canvasWidth, canvasHeight>>
exportVars == <<exportItems, isExporting, exportProgress, currentExportName,
                bulk, hidden, run, sink, events>>
openVars == <<file, openResult, currentProjectPath>>
convVars == <<inLayers, projectLayers, runtimeLayers, backLayers, convPc, failing>>
presetVars == <<now, lastOp>>
taskVars == <<context, task, written, isDialogOpen>>
vars == <<hostVars, selectedLayerId, exportVars, isTauri, openVars, convVars, presetVars,
          taskVars>>

-----------------------------------------------------------------------------
(* Bounds *)

MaxLayers == 2      \* layers in the host's layer set
MaxPresets == 2     \* presets in the Preset Store (one export item each)
MaxOps == 3         \* editing operations in one session
MaxFileLayers == 3  \* layers in a project file that is loaded

Owners == {"quick", "single", "bulk"}

-----------------------------------------------------------------------------
(* Sequence helpers standing for the Array methods the code uses; SelectSeq  *)
(* stands for Array.prototype.filter                                        *)

Range(s) == {s[i] : i \in DOMAIN s}

\* the ids of an array of layers, presets or items
Ids(seq) == {seq[i].id : i \in DOMAIN seq}

RECURSIVE InsertByZ(_, _)
\* insert x after every element whose zIndex is <= x.zIndex (keeps the sort stable)
InsertByZ(s, x) ==
    IF s = <<>> THEN <<x>>
    ELSE IF Head(s).zIndex <= x.zIndex
         THEN <<Head(s)>> \o InsertByZ(Tail(s), x)
         ELSE <<x>> \o s

RECURSIVE SortByZ(_)
\* Array.prototype.sort((a, b) => a.zIndex - b.zIndex): stable, ascending
SortByZ(s) ==
    IF s = <<>> THEN <<>>
    ELSE InsertByZ(SortByZ(SubSeq(s, 1, Len(s) - 1)), s[Len(s)])

\* layerStates[layer.id] read as a condition: undefined and false are both falsy
Truthy(layerStates, id) == id \in DOMAIN layerStates /\ layerStates[id]


-----------------------------------------------------------------------------
(* JSON values, as JSON.parse gives them: what typeof, Array.isArray and a  *)
(* condition see of a value                                                 *)

Undefined == [type |-> "undefined"]
Null == [type |-> "null"]
Str(s) == [type |-> "string", value |-> s]
Num(n) == [type |-> "number", value |-> n]
Arr(items) == [type |-> "array", value |-> items]
Obj(fields) == [type |-> "object", value |-> fields]

\* a value read as a condition (!x is its negation)
ToBoolean(v) ==
    CASE v.type = "undefined" -> FALSE
      [] v.type = "string" -> v.value /= ""
      [] v.type = "number" -> v.value /= 0
      [] OTHER -> TRUE

\* typeof x === 'number'
IsNumber(v) == v.type = "number"

\* Array.isArray(x)
IsArray(v) == v.type = "array"

\* project.canvas.width / .height: undefined when canvas has no such field
CanvasField(project, f) ==
    IF project.canvas.type = "object" THEN project.canvas.value[f] ELSE Undefined

-----------------------------------------------------------------------------
(* Host application: ImageEditor *)

\* (mutant) a layer the preset does not name is hidden
HandleApplyPresetHideMissing(L, layerStates) ==
    [p \in DOMAIN L |->
        [L[p] EXCEPT !.isVisible = L[p].id \in DOMAIN layerStates /\ layerStates[L[p].id]]]

\* handleApplyPreset: isVisible: layerStates[layer.id] ?? layer.isVisible
HandleApplyPreset(L, layerStates) ==
    [p \in DOMAIN L |->
        [L[p] EXCEPT !.isVisible =
            IF L[p].id \in DOMAIN layerStates THEN layerStates[L[p].id]
            ELSE L[p].isVisible]]

-----------------------------------------------------------------------------
(* One composite: the closure state of handleQuickExportPNG/JPG or of       *)
(* captureCanvas.  cur is visibleLayers/currentLayers, pending the decodes  *)
(* (new Image()) whose onload/onerror has not fired, loaded is loadedImages,*)
(* drawn the drawImage calls of this composite in the order they were made, *)
(* failed the layers whose onerror fired, buffer the size the composite gave *)
(* its canvas, geom where each drawImage put its image.                     *)

\* no canvas, or a canvas whose size has not been set
NoBuffer == [width |-> Undefined, height |-> Undefined]

\* (mutant) the canvas keeps the size a new canvas has
CanvasSizeDefault(width, height) == [width |-> Num(300), height |-> Num(150)]

\* canvas.width = width; canvas.height = height
CanvasSize(width, height) == [width |-> width, height |-> height]

IdleRun ==
    [st |-> "idle", fmt |-> "none", bg |-> "clear", cur |-> <<>>, pending |-> {},
     loaded |-> 0, drawn |-> <<>>, failed |-> {}, buffer |-> NoBuffer, geom |-> <<>>]

\* const visibleLayers = this.context.layers.filter(l => l.isVisible).sort(by zIndex)
VisibleLayers(L) == SortByZ(SelectSeq(L, LAMBDA l : l.isVisible))

\* captureCanvas: layerStates ? layers.filter(l => layerStates[l.id]).sort(...)
\*                            : layers.filter(l => l.isVisible).sort(...)
CurrentLayers(L, hasStates, layerStates) ==
    IF hasStates
    THEN SortByZ(SelectSeq(L, LAMBDA l : Truthy(layerStates, l.id)))
    ELSE SortByZ(SelectSeq(L, LAMBDA l : l.isVisible))

\* the decodes a composite initiates: visibleLayers.forEach(... img.src = layer.src)
StartDecodes(fmt, bg, cur, buffer) ==
    [st |-> "decoding", fmt |-> fmt, bg |-> bg, cur |-> cur, pending |-> DOMAIN cur,
     loaded |-> 0, drawn |-> <<>>, failed |-> {}, buffer |-> buffer, geom |-> <<>>]

\* (mutant) a race instead of a join: done as soon as one decode has settled
AllLoadedRace(loadedImages, totalImages) == loadedImages >= 1

\* checkComplete: if (loadedImages === totalImages)
AllLoaded(loadedImages, totalImages) == loadedImages = totalImages

\* captureCanvas: if (loadedImages === totalImages) resolve(canvas.toDataURL(...))
CaptureAllLoaded(loadedImages, totalImages) == loadedImages = totalImages

RECURSIVE GCD(_, _)
GCD(a, b) == IF b = 0 THEN a ELSE GCD(b, a % b)

\* the number n / d (d > 0), in lowest terms
Frac(n, d) ==
    LET g == GCD(IF n < 0 THEN -n ELSE n, d)
    IN  IF n = 0 THEN [num |-> 0, den |-> 1] ELSE [num |-> n \div g, den |-> d \div g]

\* where a drawImage lands when one of its arguments is no number
NotANumber == [nan |-> TRUE]

\* quick export, img.onload: the arguments offsetX, offsetY, scaledWidth,
\* scaledHeight of drawImage for a layer on a canvas of the given size, with
\* scale = Math.min(canvasWidth / layer.width, canvasHeight / layer.height)
ScaleToFit(layer, width, height) ==
    IF ~(IsNumber(width) /\ IsNumber(height)) \/ layer.width <= 0 \/ layer.height <= 0
    THEN NotANumber
    ELSE LET scaleX == Frac(width.value, layer.width)
             scaleY == Frac(height.value, layer.height)
             scale == IF scaleX.num * scaleY.den <= scaleY.num * scaleX.den
                      THEN scaleX ELSE scaleY
             scaledWidth == Frac(layer.width * scale.num, scale.den)
             scaledHeight == Frac(layer.height * scale.num, scale.den)
         IN  [x |-> Frac(width.value * scaledWidth.den - scaledWidth.num,
                         2 * scaledWidth.den),
              y |-> Frac(height.value * scaledHeight.den - scaledHeight.num,
                         2 * scaledHeight.den),
              w |-> scaledWidth, h |-> scaledHeight]

\* captureCanvas, img.onload: ctx.drawImage(img, 0, 0, canvasWidth, canvasHeight)
StretchToCanvas(width, height) ==
    IF ~(IsNumber(width) /\ IsNumber(height)) THEN NotANumber
    ELSE [x |-> Frac(0, 1), y |-> Frac(0, 1),
          w |-> Frac(width.value, 1), h |-> Frac(height.value, 1)]

\* img.onload: ctx.drawImage(img, x, y, w, h); loadedImages++
AfterOnLoad(r, k, where) ==
    [r EXCEPT !.pending = @ \ {k}, !.loaded = @ + 1,
              !.drawn = Append(@, r.cur[k].id),
              !.geom = Append(@, where)]

\* (mutant) a failed decode is not counted
AfterOnErrorUncounted(r, k) ==
    [r EXCEPT !.pending = @ \ {k}, !.failed = @ \cup {r.cur[k].id}]

\* img.onerror: loadedImages++
AfterOnError(r, k) ==
    [r EXCEPT !.pending = @ \ {k}, !.loaded = @ + 1,
              !.failed = @ \cup {r.cur[k].id}]

-----------------------------------------------------------------------------
(* The values the export model starts from *)

LayerId(i) == "layer-" \o ToString(i)
LayerIds == {LayerId(i) : i \in 1..MaxLayers}

\* a runtime Layer; the host keeps the array in zIndex order
MkLayer(i, vis) ==
    [id |-> LayerId(i), name |-> "Layer " \o ToString(i), src |-> "/project-assets/" \o ToString(i),
     file_path |-> "./assets/" \o ToString(i), width |-> 1920, height |-> 1080,
     isVisible |-> vis, zIndex |-> i - 1]

InitLayers ==
    UNION {{[p \in 1..n |-> MkLayer(p, v[p])] : v \in [1..n -> BOOLEAN]} : n \in 0..MaxLayers}

\* layer_states snapshots: one taken with every layer shown, and one taken when
\* the layer set was different (it hides layer 1, names a layer deleted since and
\* says nothing about the other layers)
StatesPool ==
    {[id \in LayerIds |-> TRUE],
     [id \in {LayerId(1), "layer-gone"} |-> id = "layer-gone"]}

MkPreset(k, states) ==
    [id |-> "preset-" \o ToString(k), name |-> "Preset " \o ToString(k), layer_states |-> states]

InitPresets ==
    UNION {{[k \in 1..n |-> MkPreset(k, st[k])] : st \in [1..n -> StatesPool]} : n \in 0..MaxPresets}

\* initializeExportItems: one enabled png item per preset, in preset order
InitializeExportItems(P, old) ==
    IF Len(P) > 0
    THEN [k \in DOMAIN P |->
            [id |-> "export-" \o P[k].id, name |-> P[k].name, preset |-> P[k],
             format |-> "png", quality |-> 90, enabled |-> TRUE]]
    ELSE old

\* exportBulk's frame: exportItems and layers are those of the render the click
\* handler belongs to, enabledItems and i are its locals
IdleBulk ==
    [pc |-> "idle", exportItems |-> <<>>, enabledItems |-> <<>>, i |-> 0, layers |-> <<>>]

-----------------------------------------------------------------------------
(* TaskManager quick export: handleQuickExportPNG / handleQuickExportJPG    *)

\* downloadCanvas, browser branch: link.click() downloads the canvas at once
WebDownload(r) ==
    [by |-> "quick", name |-> "canvas-export", format |-> r.fmt, content |-> r.drawn,
     size |-> r.buffer]

\* downloadCanvas as the composite sees it: in the browser it returns after the
\* download; in the native host it awaits the save dialog
AfterDownloadCanvas(r) ==
    [r EXCEPT !.st = IF isTauri THEN "saving" ELSE "resolved"]

QuickExport(fmt) ==
    /\ run["quick"].st = "idle"
    /\ LET buffer == CanvasSize(context.canvasWidth, context.canvasHeight)
           visibleLayers == VisibleLayers(context.layers)
           bg == IF fmt = "jpg" THEN "white" ELSE "clear"
           blank == [IdleRun EXCEPT !.fmt = fmt, !.bg = bg, !.buffer = buffer]
       IN  IF Len(visibleLayers) = 0
           THEN /\ run' = [run EXCEPT !["quick"] = AfterDownloadCanvas(blank)]
                /\ sink' = IF isTauri THEN sink ELSE Append(sink, WebDownload(blank))
           ELSE /\ run' = [run EXCEPT !["quick"] = StartDecodes(fmt, bg, visibleLayers, buffer)]
                /\ sink' = sink
    /\ UNCHANGED <<hostVars, exportItems, isExporting, exportProgress, currentExportName,
                   bulk, hidden, events, isTauri, openVars, convVars, presetVars,
                   taskVars, selectedLayerId>>

HandleQuickExportPNG == QuickExport("png")

HandleQuickExportJPG == QuickExport("jpg")

\* the tail of img.onload / img.onerror: checkComplete()
QuickCheckComplete(r2) ==
    /\ IF AllLoaded(r2.loaded, Len(r2.cur))
       THEN /\ run' = [run EXCEPT !["quick"] = AfterDownloadCanvas(r2)]
            /\ sink' = IF isTauri THEN sink ELSE Append(sink, WebDownload(r2))
       ELSE /\ run' = [run EXCEPT !["quick"] = r2]
            /\ sink' = sink
    /\ UNCHANGED <<hostVars, exportItems, isExporting, exportProgress, currentExportName,
                   bulk, hidden, events, isTauri, openVars, convVars, presetVars,
                   taskVars, selectedLayerId>>

QuickOnLoad ==
    \E k \in run["quick"].pending :
        QuickCheckComplete(
            AfterOnLoad(run["quick"], k,
                        ScaleToFit(run["quick"].cur[k], context.canvasWidth,
                                   context.canvasHeight)))

QuickOnError ==
    \E k \in run["quick"].pending : QuickCheckComplete(AfterOnError(run["quick"], k))

\* downloadCanvas, native branch, once save() returns: a path ("path"), null
\* ("cancel") or an exception ("throw").  With a path the bytes are computed and
\* nothing is written (writeBinaryFile is commented out).  An exception rejects
\* handleQuickExport when it awaited downloadCanvas itself (no visible layer); when
\* checkComplete awaited it, only checkComplete's promise rejects and the
\* composite's promise is never settled.
SaveDialogReturn ==
    /\ run["quick"].st = "saving"
    /\ \E outcome \in {"path", "cancel", "throw"} :
         run' = [run EXCEPT !["quick"].st =
                    IF outcome = "throw"
                    THEN (IF Len(run["quick"].cur) = 0 THEN "rejected" ELSE "hung")
                    ELSE "resolved"]
    /\ UNCHANGED <<hostVars, exportItems, isExporting, exportProgress, currentExportName,
                   bulk, hidden, sink, events, isTauri, openVars, convVars, presetVars,
                   taskVars, selectedLayerId>>

-----------------------------------------------------------------------------
(* ExportManager: captureCanvas, downloadImage, exportSingle, exportBulk    *)

\* exportBulk keeps no record of a failed item: what it reports is exportProgress,
\* currentExportName and isExporting, and an item whose capture gave "" is skipped
\* by `if (dataUrl)` without a trace
FailedItems == {}

\* the item exportBulk is working on
BulkItem == bulk.enabledItems[bulk.i]

\* downloadImage(dataUrl, filename, format, quality): the hand-off of a captured
\* image to the browser (it re-encodes the image and clicks a download link)
DownloadImage(o, url) ==
    IF o = "bulk"
    THEN [by |-> o, name |-> BulkItem.name, format |-> BulkItem.format, content |-> url.content,
          size |-> url.size]
    ELSE [by |-> o, name |-> "canvas-export", format |-> "png", content |-> url.content,
          size |-> url.size]

\* setExportProgress(((i + 1) / enabledItems.length) * 100), i counted from 1 here
Progress(i, n) == (i * 100) \div n

\* what follows `await captureCanvas(...)` in the caller, up to its next await:
\* exportSingle: if (dataUrl) downloadImage(...)
\* exportBulk:   if (dataUrl) downloadImage(...); setExportProgress(...); await 500 ms
\* (ev is the log of bulk captures so far)
CaptureResolved(o, r2, h2, url, ev) ==
    /\ run' = [run EXCEPT ![o] = r2]
    /\ hidden' = h2
    /\ sink' = IF url.ok THEN Append(sink, DownloadImage(o, url)) ELSE sink
    /\ IF o = "bulk"
       THEN /\ exportProgress' = Progress(bulk.i, Len(bulk.enabledItems))
            /\ bulk' = [bulk EXCEPT !.pc = "wait500"]
            /\ events' = Append(ev, [t |-> "end", item |-> BulkItem.id, ok |-> url.ok])
       ELSE UNCHANGED <<exportProgress, bulk, events>>
    /\ UNCHANGED <<hostVars, exportItems, isExporting, currentExportName,
                   isTauri, openVars, convVars, presetVars, taskVars, selectedLayerId>>

\* captureCanvas(layerStates?) called by o over the layers of o's closure.
\* ctxOk is whether canvasRef.current and getContext("2d") are there: without
\* them it resolves "" before touching the canvas.  Setting canvas.width clears
\* the hidden canvas.  With no layer to draw it resolves at once.
CaptureCanvas(o, L, hasStates, layerStates, ctxOk, ev) ==
    IF ~ctxOk
    THEN CaptureResolved(o, [IdleRun EXCEPT !.st = "resolved"], hidden,
                         [ok |-> FALSE, content |-> <<>>, size |-> NoBuffer], ev)
    ELSE LET buffer == CanvasSize(canvasWidth, canvasHeight)
             currentLayers == CurrentLayers(L, hasStates, layerStates)
         IN  IF Len(currentLayers) = 0
             THEN CaptureResolved(o, [IdleRun EXCEPT !.st = "resolved", !.buffer = buffer],
                                  <<>>, [ok |-> TRUE, content |-> <<>>, size |-> buffer], ev)
             ELSE /\ run' = [run EXCEPT ![o] = StartDecodes("png", "clear", currentLayers,
                                                            buffer)]
                  /\ hidden' = <<>>
                  /\ bulk' = IF o = "bulk" THEN [bulk EXCEPT !.pc = "capturing"] ELSE bulk
                  /\ events' = ev
                  /\ UNCHANGED <<hostVars, exportItems, isExporting, exportProgress,
                                 currentExportName, sink,
                                 isTauri, openVars, convVars, presetVars, taskVars,
                                 selectedLayerId>>

\* the tail of captureCanvas's img.onload / img.onerror
CaptureCheckComplete(o, r2, h2) ==
    IF run[o].st = "decoding" /\ CaptureAllLoaded(r2.loaded, Len(r2.cur))
    THEN CaptureResolved(o, [r2 EXCEPT !.st = "resolved"], h2,
                         [ok |-> TRUE, content |-> h2, size |-> r2.buffer], events)
    ELSE /\ run' = [run EXCEPT ![o] = r2]
         /\ hidden' = h2
         /\ UNCHANGED <<hostVars, exportItems, isExporting, exportProgress, currentExportName,
                        bulk, sink, events, isTauri, openVars, convVars, presetVars,
                        taskVars, selectedLayerId>>

CaptureOnLoad ==
    \E o \in {"single", "bulk"} : \E k \in run[o].pending :
        CaptureCheckComplete(o, AfterOnLoad(run[o], k, StretchToCanvas(canvasWidth, canvasHeight)),
                             Append(hidden, run[o].cur[k].id))

CaptureOnError ==
    \E o \in {"single", "bulk"} : \E k \in run[o].pending :
        CaptureCheckComplete(o, AfterOnError(run[o], k), hidden)

\* click on "Export Current State": const dataUrl = await captureCanvas()
ExportSingle ==
    /\ run["single"].st = "idle"
    /\ \E ctxOk \in BOOLEAN : CaptureCanvas("single", layers, FALSE, <<>>, ctxOk, events)

\* (mutant) the whole queue, disabled items included
EnabledItemsAll(items) == items

\* const enabledItems = exportItems.filter((item) => item.enabled)
EnabledItems(items) == SelectSeq(items, LAMBDA item : item.enabled)

\* the head of one iteration of exportBulk's loop, up to `await 100 ms`:
\* setCurrentExportName(item.name); onApplyPreset(item.preset.layer_states)
BulkIteration(b) ==
    /\ bulk' = [b EXCEPT !.pc = "wait100"]
    /\ currentExportName' = b.enabledItems[b.i].name
    /\ layers' = HandleApplyPreset(layers, b.enabledItems[b.i].preset.layer_states)

\* click on "Export n Items" (disabled while there is no enabled item or isExporting)
ExportBulk ==
    /\ bulk.pc = "idle"
    /\ ~isExporting
    /\ Len(EnabledItems(exportItems)) > 0
    /\ isExporting' = TRUE
    /\ exportProgress' = 0
    /\ BulkIteration([pc |-> "idle", exportItems |-> exportItems,
                      enabledItems |-> EnabledItems(exportItems), i |-> 1,
                      layers |-> layers])
    /\ UNCHANGED <<presets, canvasWidth, canvasHeight, exportItems, hidden, run,
                   sink, events, isTauri, openVars, convVars, presetVars, taskVars,
                   selectedLayerId>>

\* after the 100 ms: const dataUrl = await captureCanvas(item.preset.layer_states).
\* captureCanvas is the closure of the render exportBulk was started from: it reads
\* that render's layers.
BulkCapture ==
    /\ bulk.pc = "wait100"
    /\ \E ctxOk \in BOOLEAN :
         CaptureCanvas("bulk", bulk.layers, TRUE, BulkItem.preset.layer_states, ctxOk,
                       Append(events, [t |-> "start", item |-> BulkItem.id, ok |-> TRUE]))

\* after the 500 ms: the next iteration, or the end of exportBulk
BulkNext ==
    /\ bulk.pc = "wait500"
    /\ IF bulk.i < Len(bulk.enabledItems)
       THEN /\ BulkIteration([bulk EXCEPT !.i = @ + 1])
            /\ UNCHANGED <<isExporting, exportProgress>>
       ELSE /\ isExporting' = FALSE
            /\ currentExportName' = ""
            /\ exportProgress' = 0
            /\ bulk' = [bulk EXCEPT !.pc = "finished"]
            /\ layers' = layers
    /\ UNCHANGED <<presets, canvasWidth, canvasHeight, exportItems, hidden, run,
                   sink, events, isTauri, openVars, convVars, presetVars, taskVars,
                   selectedLayerId>>

\* the checkbox of an export item: updateExportItem(id, {enabled: !!checked})
UpdateExportItem ==
    /\ \E k \in DOMAIN exportItems :
         exportItems' = [exportItems EXCEPT ![k].enabled = ~@]
    /\ UNCHANGED <<hostVars, isExporting, exportProgress, currentExportName, bulk, hidden,
                   run, sink, events, isTauri, openVars, convVars, presetVars,
                   taskVars, selectedLayerId>>

\* handleDialogOpenChange(open): setIsDialogOpen(open); if (open)
\* initializeExportItems(), over the presets of the render the dialog is in
HandleDialogOpenChange ==
    /\ \E open \in BOOLEAN :
         /\ open /= isDialogOpen
         /\ isDialogOpen' = open
         /\ exportItems' = IF open THEN InitializeExportItems(presets, exportItems)
                           ELSE exportItems
    /\ UNCHANGED <<hostVars, isExporting, exportProgress, currentExportName, bulk, hidden,
                   run, sink, events, isTauri, openVars, convVars, presetVars,
                   context, task, written, selectedLayerId>>

-----------------------------------------------------------------------------
(* ProjectLoader.loadProjectFile: the validation of a parsed project file   *)

MaxCanvasDimension == 50000

Accepted == [ok |-> TRUE, error |-> ""]
Rejected(message) == [ok |-> FALSE, error |-> message]

\* (mutant) the range checks ahead of the structure checks
LoadProjectFileRangeFirst(project) ==
    IF IsNumber(CanvasField(project, "width")) /\ IsNumber(CanvasField(project, "height"))
       /\ (CanvasField(project, "width").value <= 0 \/ CanvasField(project, "height").value <= 0)
    THEN Rejected("Canvas dimensions must be positive")
    ELSE IF IsNumber(CanvasField(project, "width")) /\ IsNumber(CanvasField(project, "height"))
            /\ (CanvasField(project, "width").value > MaxCanvasDimension
                \/ CanvasField(project, "height").value > MaxCanvasDimension)
    THEN Rejected("Canvas dimensions are too large (max 50000px)")
    ELSE IF ~ToBoolean(project.version)
    THEN Rejected("Missing version field")
    ELSE IF ~ToBoolean(project.canvas) \/ ~IsNumber(CanvasField(project, "width"))
            \/ ~IsNumber(CanvasField(project, "height"))
    THEN Rejected("Missing or invalid canvas dimensions")
    ELSE IF ~IsArray(project.layers)
    THEN Rejected("Missing or invalid layers array")
    ELSE IF ~IsArray(project.presets)
    THEN Rejected("Missing or invalid presets array")
    ELSE Accepted

\* (mutant) the upper limit excluded: a dimension of 50000 is refused
LoadProjectFileBelowMax(project) ==
    IF ~ToBoolean(project.version)
    THEN Rejected("Missing version field")
    ELSE IF ~ToBoolean(project.canvas) \/ ~IsNumber(CanvasField(project, "width"))
            \/ ~IsNumber(CanvasField(project, "height"))
    THEN Rejected("Missing or invalid canvas dimensions")
    ELSE IF ~IsArray(project.layers)
    THEN Rejected("Missing or invalid layers array")
    ELSE IF ~IsArray(project.presets)
    THEN Rejected("Missing or invalid presets array")
    ELSE IF CanvasField(project, "width").value <= 0 \/ CanvasField(project, "height").value <= 0
    THEN Rejected("Canvas dimensions must be positive")
    ELSE IF CanvasField(project, "width").value >= MaxCanvasDimension
            \/ CanvasField(project, "height").value >= MaxCanvasDimension
    THEN Rejected("Canvas dimensions are too large (max 50000px)")
    ELSE Accepted

\* the checks of reader.onload, in the order of the code; the first that fails
\* throws, and the promise is rejected with that message
LoadProjectFile(project) ==
    IF ~ToBoolean(project.version)
    THEN Rejected("Missing version field")
    ELSE IF ~ToBoolean(project.canvas) \/ ~IsNumber(CanvasField(project, "width"))
            \/ ~IsNumber(CanvasField(project, "height"))
    THEN Rejected("Missing or invalid canvas dimensions")
    ELSE IF ~IsArray(project.layers)
    THEN Rejected("Missing or invalid layers array")
    ELSE IF ~IsArray(project.presets)
    THEN Rejected("Missing or invalid presets array")
    ELSE IF CanvasField(project, "width").value <= 0 \/ CanvasField(project, "height").value <= 0
    THEN Rejected("Canvas dimensions must be positive")
    ELSE IF CanvasField(project, "width").value > MaxCanvasDimension
            \/ CanvasField(project, "height").value > MaxCanvasDimension
    THEN Rejected("Canvas dimensions are too large (max 50000px)")
    ELSE Accepted

-----------------------------------------------------------------------------
(* ProjectLoader's layer converters.  A ProjectLayer is a record of the     *)
(* fields the file gives it: is_visible and z_index may be missing from it; *)
(* for id, name and file_path the empty string stands for a missing field   *)
(* too, and 0 for a missing width or height (`||` and `> 0` treat them      *)
(* alike).                                                                  *)

DefaultLayerWidth == 1920
DefaultLayerHeight == 1080

Has(layer, field) == field \in DOMAIN layer

\* the orders a sequence can be put in
Orders(s) ==
    {[p \in DOMAIN s |-> s[f[p]]] :
        f \in {g \in [DOMAIN s -> DOMAIN s] : \A a, b \in DOMAIN s : a /= b => g[a] /= g[b]}}

RECURSIVE InsertByZIndex(_, _)
InsertByZIndex(s, x) ==
    IF s = <<>> THEN <<x>>
    ELSE IF Head(s).z_index <= x.z_index
         THEN <<Head(s)>> \o InsertByZIndex(Tail(s), x)
         ELSE <<x>> \o s

RECURSIVE SortByZIndex(_)
SortByZIndex(s) ==
    IF s = <<>> THEN <<>>
    ELSE InsertByZIndex(SortByZIndex(SubSeq(s, 1, Len(s) - 1)), s[Len(s)])

\* (mutant) the array is left in the order it came in
SortOutcomesUnsorted(projectLayersIn) == {projectLayersIn}

\* projectLayers.sort((a, b) => a.z_index - b.z_index): what the array can hold
\* afterwards.  With every z_index a number the sort is stable and ascending.  A
\* missing z_index makes the comparator return NaN, which sort takes as "equal":
\* when the z_index values that are there are all the same nothing moves, and
\* otherwise the comparator is inconsistent and the order is the engine's choice.
SortOutcomes(projectLayersIn) ==
    IF \A p \in DOMAIN projectLayersIn : Has(projectLayersIn[p], "z_index")
    THEN {SortByZIndex(projectLayersIn)}
    ELSE IF \A p, q \in DOMAIN projectLayersIn :
               (Has(projectLayersIn[p], "z_index") /\ Has(projectLayersIn[q], "z_index"))
                   => projectLayersIn[p].z_index = projectLayersIn[q].z_index
         THEN {projectLayersIn}
         ELSE Orders(projectLayersIn)

\* filePath.includes("assets/"), over the paths of the model
InAssetsDir(filePath) == filePath \in {"./assets/bg.png", "./assets/hero.png"}

\* convertFilePathToSrc without a projectDir: the web asset of a file under
\* assets/, a generated placeholder for the rest
ConvertFilePathToSrc(filePath, width, height) ==
    IF filePath /= "" /\ InAssetsDir(filePath)
    THEN [kind |-> "project-asset", of |-> filePath]
    ELSE [kind |-> "placeholder", of |-> IF filePath = "" THEN "Layer" ELSE filePath,
          width |-> width, height |-> height]

\* the .map((layer, index) => ...) of convertProjectLayersToRuntimeLayers, over
\* the array as sort left it; index counts from 0
ConvertProjectLayersToRuntimeLayers(sorted) ==
    [p \in DOMAIN sorted |->
        LET layer == sorted[p]
            index == p - 1
            width == IF layer.width > 0 THEN layer.width ELSE DefaultLayerWidth
            height == IF layer.height > 0 THEN layer.height ELSE DefaultLayerHeight
        IN  [id |-> IF layer.id /= "" THEN layer.id ELSE "layer-" \o ToString(index),
             name |-> IF layer.name /= "" THEN layer.name ELSE "Layer " \o ToString(index + 1),
             src |-> ConvertFilePathToSrc(layer.file_path, width, height),
             file_path |-> IF layer.file_path /= "" THEN layer.file_path
                           ELSE "./assets/layer_" \o ToString(index + 1) \o ".png",
             width |-> width,
             height |-> height,
             isVisible |-> IF Has(layer, "is_visible") THEN layer.is_visible ELSE TRUE,
             zIndex |-> IF Has(layer, "z_index") THEN layer.z_index ELSE index]]

\* (mutant) the mapping back writes every layer as visible
ConvertRuntimeLayersToProjectLayersAllVisible(L) ==
    [p \in DOMAIN L |->
        [id |-> L[p].id, name |-> L[p].name, file_path |-> L[p].file_path,
         width |-> L[p].width, height |-> L[p].height,
         is_visible |-> TRUE, z_index |-> L[p].zIndex]]

\* convertRuntimeLayersToProjectLayers: the field mapping back, in the given order
ConvertRuntimeLayersToProjectLayers(L) ==
    [p \in DOMAIN L |->
        [id |-> L[p].id, name |-> L[p].name, file_path |-> L[p].file_path,
         width |-> L[p].width, height |-> L[p].height,
         is_visible |-> L[p].isVisible, z_index |-> L[p].zIndex]]

-----------------------------------------------------------------------------
(* Opening a project: TaskManager.handleOpen (browser file input) and       *)
(* TaskManager.loadTauriProject (native file dialog)                        *)

MkProjectLayer(id, z_index, is_visible) ==
    [id |-> id, name |-> "Name " \o id, file_path |-> "./assets/" \o id \o ".png",
     width |-> 800, height |-> 600, is_visible |-> is_visible, z_index |-> z_index]

\* the layers of a project file, not in z_index order
FileLayers == <<MkProjectLayer("hero", 1, TRUE), MkProjectLayer("bg", 0, FALSE)>>

FilePreset ==
    [id |-> "preset-1", name |-> "Outfit A",
     layer_states |-> [id \in {"bg", "hero"} |-> id = "bg"],
     created_at |-> "2024-01-01T00:00:00.000Z"]

VersionValues == {Undefined, Str(""), Str("1.0")}
WidthValues ==
    {Undefined, Str("1920"), Num(-1), Num(0), Num(1920), Num(MaxCanvasDimension),
     Num(MaxCanvasDimension + 1), Num(60000)}
HeightValues == {Undefined, Num(0), Num(1080), Num(MaxCanvasDimension + 1)}
CanvasValues ==
    {Undefined} \cup {Obj([width |-> w, height |-> h]) : w \in WidthValues, h \in HeightValues}
LayersValues == {Undefined, Str("none"), Arr(<<>>), Arr(FileLayers)}
PresetsValues == {Undefined, Arr(<<>>), Arr(<<FilePreset>>)}

\* the objects JSON.parse can give for the selected file
ProjectFiles ==
    [version : VersionValues, canvas : CanvasValues, layers : LayersValues,
     presets : PresetsValues]

EmptyProject ==
    [version |-> Undefined, canvas |-> Undefined, layers |-> Undefined, presets |-> Undefined]

ProjectPath == "/projects/outfits.json"

NoOpen == [st |-> "none", error |-> "", invoked |-> FALSE]

\* projectData.presets.map(preset => ({id, name, layer_states, created_at}))
MapPresets(P) ==
    [k \in DOMAIN P |->
        [id |-> P[k].id, name |-> P[k].name, layer_states |-> P[k].layer_states,
         created_at |-> P[k].created_at]]

\* handleLoadProject(newLayers, newPresets, newCanvasWidth, newCanvasHeight)
HandleLoadProject(newLayers, newPresets, newCanvasWidth, newCanvasHeight) ==
    /\ layers' = newLayers
    /\ presets' = newPresets
    /\ canvasWidth' = newCanvasWidth
    /\ canvasHeight' = newCanvasHeight
    /\ selectedLayerId' = IF Len(newLayers) > 0 THEN Str(newLayers[1].id) ELSE Null

\* loadLayersWithAssets, the layer pushed for one project layer: src is the asset
\* URL of file_path under the project's directory, or the placeholder of the
\* catch block when path.join / convertFileSrc threw
LayerWithAsset(layer, threw) ==
    [id |-> layer.id, name |-> layer.name,
     src |-> IF threw
             THEN [kind |-> "placeholder", of |-> layer.name,
                   width |-> layer.width, height |-> layer.height]
             ELSE [kind |-> "asset-url", of |-> layer.file_path],
     file_path |-> layer.file_path, width |-> layer.width, height |-> layer.height,
     isVisible |-> layer.is_visible, zIndex |-> layer.z_index]

\* (mutant) the first layer that fails ends the batch: the error is thrown on
LoadLayersWithAssetsAbort(P, threw) ==
    SortByZ(SubSeq([p \in DOMAIN P |-> LayerWithAsset(P[p], FALSE)], 1,
                   IF threw = {} THEN Len(P)
                   ELSE (CHOOSE p \in threw : \A q \in threw : p <= q) - 1))

\* loadLayersWithAssets(projectLayers, projectDir): every field copied as it is,
\* one layer per project layer whether its asset resolved or threw (threw: the
\* positions of those that threw), then sorted by zIndex
LoadLayersWithAssets(P, threw) ==
    SortByZ([p \in DOMAIN P |-> LayerWithAsset(P[p], p \in threw)])

\* the user picks one of these files, in the file input or in the native dialog
SelectFileFrom(files) ==
    /\ openResult.st = "none"
    /\ \E project \in files : file' = project
    /\ openResult' = [openResult EXCEPT !.st = "selected"]
    /\ UNCHANGED <<hostVars, exportVars, isTauri, currentProjectPath, convVars, presetVars,
                   taskVars, selectedLayerId>>

SelectFile == SelectFileFrom(ProjectFiles)

\* handleOpen(file) in the browser: loadProjectFile, then loadProjectData, which
\* converts the layers and calls onLoadProject; an error ends in an alert
HandleOpen ==
    /\ ~isTauri
    /\ openResult.st = "selected"
    /\ LET validation == LoadProjectFile(file)
       IN  IF validation.ok
           THEN /\ \E sorted \in SortOutcomes(file.layers.value) :
                     HandleLoadProject(ConvertProjectLayersToRuntimeLayers(sorted),
                                       MapPresets(file.presets.value),
                                       CanvasField(file, "width"),
                                       CanvasField(file, "height"))
                /\ openResult' = [st |-> "loaded", error |-> "", invoked |-> TRUE]
           ELSE /\ UNCHANGED <<hostVars, selectedLayerId>>
                /\ openResult' = [st |-> "alerted", error |-> validation.error,
                                  invoked |-> FALSE]
    /\ UNCHANGED <<exportVars, isTauri, file, currentProjectPath, convVars, presetVars,
                   taskVars>>

\* what makes loadTauriProject throw a TypeError before it reaches onLoadProject:
\* layers without length/entries(), presets without map(), no canvas to read
\* width and height from
LoadTauriThrows(project) ==
    \/ ~IsArray(project.layers)
    \/ ~IsArray(project.presets)
    \/ project.canvas.type /= "object"

\* loadTauriProject(projectPath): JSON.parse, then straight to the layers, the
\* presets and onLoadProject; loadProjectFile is not called on this path
LoadTauriProject ==
    /\ isTauri
    /\ openResult.st = "selected"
    /\ currentProjectPath' = ProjectPath
    /\ IF LoadTauriThrows(file)
       THEN /\ UNCHANGED <<hostVars, selectedLayerId>>
            /\ openResult' = [st |-> "thrown", error |-> "TypeError", invoked |-> FALSE]
       ELSE /\ \E threw \in SUBSET DOMAIN file.layers.value :
                    HandleLoadProject(LoadLayersWithAssets(file.layers.value, threw),
                                      MapPresets(file.presets.value),
                                      CanvasField(file, "width"),
                                      CanvasField(file, "height"))
            /\ openResult' = [st |-> "loaded", error |-> "", invoked |-> TRUE]
    /\ UNCHANGED <<exportVars, isTauri, file, convVars, presetVars, taskVars>>

-----------------------------------------------------------------------------
(* Saving a project: TaskManager.handleSave / handleSaveAs over              *)
(* ProjectLoader.exportProject                                              *)

\* exportProject: layer_states: preset.layerStates || preset.layer_states
ExportedLayerStates(preset) ==
    IF Has(preset, "layerStates") THEN preset.layerStates
    ELSE IF Has(preset, "layer_states") THEN preset.layer_states
    ELSE Undefined

\* ProjectLoader.exportProject(layers, presets, canvasWidth, canvasHeight)
ExportProject(L, P, width, height) ==
    [version |-> Str("1.0"),
     canvas |-> Obj([width |-> width, height |-> height]),
     layers |-> Arr(ConvertRuntimeLayersToProjectLayers(L)),
     presets |-> Arr([k \in DOMAIN P |->
                        [id |-> P[k].id, name |-> P[k].name,
                         layer_states |-> ExportedLayerStates(P[k]),
                         created_at |-> P[k].created_at]])]

\* the presets handleSave hands to exportProject: the literal [] (TaskContext has
\* no presets)
SavedPresets == <<>>

\* const projectData = ProjectLoader.exportProject(this.context.layers, [], ...)
ProjectData ==
    ExportProject(context.layers, SavedPresets, context.canvasWidth, context.canvasHeight)

\* what the host held when the file was written
HostState ==
    [layers |-> layers, presets |-> presets, canvasWidth |-> canvasWidth,
     canvasHeight |-> canvasHeight]

\* the file as written: JSON.stringify(projectData) under the given name; the
\* values of the model are all JSON values, which JSON.parse gives back as they were
Written(by, to) ==
    [st |-> "written", by |-> by, to |-> to, data |-> ProjectData, from |-> HostState]

\* a save that wrote nothing: the dialog was cancelled or threw, the write failed
NotWritten(by, st) == [st |-> st, by |-> by]

\* the names a save task can carry: none, or one
Filenames == {"", "outfits"}

\* handleSave(filename), browser branch: the download of `${filename || "project"}.json`
SaveWeb(by, filename) ==
    /\ written' = Written(by, (IF filename /= "" THEN filename ELSE "project") \o ".json")
    /\ UNCHANGED currentProjectPath

\* handleSave, native branch with a project path: writeTextFile, which can throw
SaveTauri(by, path) ==
    /\ \E writes \in BOOLEAN :
         written' = IF writes THEN Written(by, path) ELSE NotWritten(by, "failed")
    /\ currentProjectPath' = path

\* executeTask({type: "save-as", filename}): the native save dialog gives a path,
\* null or an exception; the browser's prompt gives a name or nothing
HandleSaveAs ==
    /\ IF isTauri
       THEN \E outcome \in {"path", "cancel", "throw"} :
               IF outcome = "path" THEN SaveTauri("handleSaveAs", "/projects/copy.json")
               ELSE /\ written' = NotWritten("handleSaveAs", outcome)
                    /\ UNCHANGED currentProjectPath
       ELSE \E userFilename \in {"", "copy"} :
               IF userFilename /= "" THEN SaveWeb("handleSaveAs", userFilename)
               ELSE /\ written' = NotWritten("handleSaveAs", "cancel")
                    /\ UNCHANGED currentProjectPath
    /\ UNCHANGED <<hostVars, exportVars, isTauri, file, openResult, convVars, presetVars,
                   context, task, isDialogOpen, selectedLayerId>>

\* executeTask({type: "save", filename}): without a project path the native branch
\* goes to handleSaveAs
HandleSave ==
    /\ IF isTauri
       THEN IF currentProjectPath = ""
            THEN \E outcome \in {"path", "cancel", "throw"} :
                    IF outcome = "path" THEN SaveTauri("handleSave", "/projects/copy.json")
                    ELSE /\ written' = NotWritten("handleSave", outcome)
                         /\ UNCHANGED currentProjectPath
            ELSE SaveTauri("handleSave", currentProjectPath)
       ELSE \E filename \in Filenames : SaveWeb("handleSave", filename)
    /\ UNCHANGED <<hostVars, exportVars, isTauri, file, openResult, convVars, presetVars,
                   context, task, isDialogOpen, selectedLayerId>>

\* no save task has run so far
NothingSaved == written.st = "none"

\* the user opens the file that was just written
SelectWritten ==
    /\ written.st = "written"
    /\ openResult.st = "none"
    /\ file' = written.data
    /\ openResult' = [openResult EXCEPT !.st = "selected"]
    /\ UNCHANGED <<hostVars, exportVars, isTauri, currentProjectPath, convVars, presetVars,
                   taskVars, selectedLayerId>>

-----------------------------------------------------------------------------
(* TaskManager.executeTask: the switch over task.type                       *)

TaskTypes ==
    {"quick-export-png", "quick-export-jpg", "bulk-export", "save", "save-as", "open"}

\* (mutant) a type the switch does not know is treated as a save
DispatchUnknownToSave(type) ==
    CASE type = "quick-export-png" -> "handleQuickExportPNG"
      [] type = "quick-export-jpg" -> "handleQuickExportJPG"
      [] type = "bulk-export" -> "handleBulkExport"
      [] type = "save-as" -> "handleSaveAs"
      [] type = "open" -> "handleOpen"
      [] OTHER -> "handleSave"

\* switch (task.type): the handler of each case, "throw" for default
Dispatch(type) ==
    CASE type = "quick-export-png" -> "handleQuickExportPNG"
      [] type = "quick-export-jpg" -> "handleQuickExportJPG"
      [] type = "bulk-export" -> "handleBulkExport"
      [] type = "save" -> "handleSave"
      [] type = "save-as" -> "handleSaveAs"
      [] type = "open" -> "handleOpen"
      [] OTHER -> "throw"

\* the types a caller can put in a task: those of the Task union, and others
\* (the switch reads (task as any).type)
TaskInputs == TaskTypes \cup {"export-gif", "close"}

\* executeTask(task) up to the call of the handler, or the throw of default
ExecuteTask ==
    /\ task.st = "none"
    /\ \E type \in TaskInputs :
         task' = IF Dispatch(type) = "throw"
                 THEN [st |-> "thrown", type |-> type, handler |-> "none",
                       error |-> "Unknown task type: " \o type]
                 ELSE [st |-> "dispatched", type |-> type, handler |-> Dispatch(type),
                       error |-> ""]
    /\ UNCHANGED <<hostVars, exportVars, isTauri, openVars, convVars, presetVars,
                   context, written, isDialogOpen, selectedLayerId>>

\* executeTask has called this handler
Dispatched(handler) == task.st = "dispatched" /\ task.handler = handler

\* handleBulkExport: window.dispatchEvent(new CustomEvent("open-bulk-export")).
\* ExportManager's listener opens the dialog and calls initializeExportItems; the
\* listener is the one of the first render, whose presets are the empty list
HandleBulkExport ==
    /\ ~isDialogOpen
    /\ isDialogOpen' = TRUE
    /\ exportItems' = InitializeExportItems(<<>>, exportItems)
    /\ UNCHANGED <<hostVars, isExporting, exportProgress, currentExportName, bulk, hidden,
                   run, sink, events, isTauri, openVars, convVars, presetVars,
                   context, task, written, selectedLayerId>>

\* the contexts a caller can hand to updateContext: the editor's layers or
\* none, on a canvas of one of two sizes
Contexts ==
    [layers : {layers, <<>>}, canvasWidth : {Num(800), Num(1920)},
     canvasHeight : {Num(600), Num(1080)}]

\* updateContext(context) { this.context = context }
UpdateContext ==
    /\ \E c \in Contexts : context' = c
    /\ UNCHANGED <<hostVars, exportVars, isTauri, openVars, convVars, presetVars,
                   task, written, isDialogOpen, selectedLayerId>>

\* the context ImageEditor constructs its TaskManager with
HostContext ==
    [layers |-> layers, canvasWidth |-> canvasWidth, canvasHeight |-> canvasHeight]

\* ImageEditor's two effects over [layers, canvasWidth, canvasHeight,
\* handleLoadProject], run after a render in which one of these changed:
\*   taskManagerRef.current = new TaskManager({layers, canvasWidth, ...})
\*   taskManagerRef.current.updateContext({layers, canvasWidth, ...})
\* The new TaskManager starts without currentProjectPath.  React compares the
\* dependencies by reference; the model compares their values, so a setLayers
\* that stores an array equal to the old one leaves the manager in place here.
RenewTaskManager ==
    /\ context /= HostContext
    /\ context' = HostContext
    /\ currentProjectPath' = ""
    /\ UNCHANGED <<hostVars, exportVars, isTauri, file, openResult, convVars, presetVars,
                   task, written, isDialogOpen, selectedLayerId>>

\* the effects of the last render have run: the TaskManager the next click
\* reaches holds the host's layers and canvas
EffectsRun == context = HostContext

-----------------------------------------------------------------------------
(* Editing: the layer handlers of ImageEditor and PresetManager.  A text is  *)
(* a sequence of characters here, so that trim() has something to work on.  *)

Whitespace == {" ", "\t"}

RECURSIVE TrimStart(_)
TrimStart(s) == IF s /= <<>> /\ Head(s) \in Whitespace THEN TrimStart(Tail(s)) ELSE s

RECURSIVE TrimEnd(_)
TrimEnd(s) ==
    IF s /= <<>> /\ s[Len(s)] \in Whitespace THEN TrimEnd(SubSeq(s, 1, Len(s) - 1)) ELSE s

\* (mutant) the name is taken as typed
TrimNothing(s) == s

\* String.prototype.trim
Trim(s) == TrimStart(TrimEnd(s))

\* prev.findIndex((x) => x.id === id): 0-based, -1 when there is none
FindIndex(prev, id) ==
    IF \E p \in DOMAIN prev : prev[p].id = id
    THEN (CHOOSE p \in DOMAIN prev :
             prev[p].id = id /\ \A q \in DOMAIN prev : prev[q].id = id => p <= q) - 1
    ELSE -1

\* const copy = [...prev]; copy.splice(index, 1): the copy without the element
\* at index (0-based)
SpliceOut(prev, index) ==
    SubSeq(prev, 1, index) \o SubSeq(prev, index + 2, Len(prev))

\* arr.splice(index, 0, x): x put in at index (0-based), at the end when index
\* is past the end
SpliceIn(arr, index, x) ==
    LET at == IF index > Len(arr) THEN Len(arr) ELSE index
    IN  SubSeq(arr, 1, at) \o <<x>> \o SubSeq(arr, at + 1, Len(arr))

\* (mutant) the two elements change places
MoveSwapped(prev, draggedId, targetId) ==
    LET draggedIndex == FindIndex(prev, draggedId)
        targetIndex == FindIndex(prev, targetId)
    IN  IF draggedIndex = -1 \/ targetIndex = -1 THEN prev
        ELSE [prev EXCEPT ![draggedIndex + 1] = prev[targetIndex + 1],
                          ![targetIndex + 1] = prev[draggedIndex + 1]]

\* the body of the updater shared by PresetManager.handleDrop and
\* handleReorderLayers: both indices are looked up before the element is taken
\* out, and targetIndex is used as it was
Move(prev, draggedId, targetId) ==
    LET draggedIndex == FindIndex(prev, draggedId)
        targetIndex == FindIndex(prev, targetId)
    IN  IF draggedIndex = -1 \/ targetIndex = -1 THEN prev
        ELSE SpliceIn(SpliceOut(prev, draggedIndex), targetIndex, prev[draggedIndex + 1])

\* one editing operation: the clock has moved on when the next one is made
Edited(op) ==
    /\ now' = now + 1
    /\ lastOp' = op

\* handleLayerToggleVisibility(id)
HandleLayerToggleVisibility ==
    \E id \in Ids(layers) :
        /\ layers' = [p \in DOMAIN layers |->
                        IF layers[p].id = id
                        THEN [layers[p] EXCEPT !.isVisible = ~layers[p].isVisible]
                        ELSE layers[p]]
        /\ Edited([op |-> "handleLayerToggleVisibility", id |-> id])
        /\ UNCHANGED <<presets, canvasWidth, canvasHeight, exportVars, isTauri, openVars,
                       convVars, taskVars, selectedLayerId>>

\* (mutant) a new layer goes to the bottom
MaxZIndexBottom(L) == -1

\* Math.max(...layers.map((l) => l.zIndex)), -1 for no layer
MaxZIndex(L) ==
    IF Len(L) > 0
    THEN CHOOSE z \in {L[p].zIndex : p \in DOMAIN L} : \A p \in DOMAIN L : L[p].zIndex <= z
    ELSE -1

\* handleAddLayer
HandleAddLayer ==
    LET n == ToString(Len(layers) + 1)
        newLayer == [id |-> "layer-" \o ToString(now), name |-> "New Layer " \o n,
                     src |-> "/placeholder.svg?text=New+Layer+" \o n,
                     file_path |-> "./assets/new_layer_" \o n \o ".png",
                     width |-> canvasWidth.value, height |-> canvasHeight.value,
                     isVisible |-> TRUE, zIndex |-> MaxZIndex(layers) + 1]
    IN  /\ layers' = Append(layers, newLayer)
        /\ selectedLayerId' = Str(newLayer.id)
        /\ Edited([op |-> "handleAddLayer"])
        /\ UNCHANGED <<presets, canvasWidth, canvasHeight, exportVars, isTauri, openVars,
                       convVars, taskVars>>

\* (mutant) the selection stays on the layer that was deleted
SelectionAfterDeleteKept(L, selected, id) == selected

\* handleDeleteLayer: if (selectedLayerId === id) setSelectedLayerId(
\*     remainingLayers.length > 0 ? remainingLayers[0].id : null)
SelectionAfterDelete(L, selected, id) ==
    LET remainingLayers == SelectSeq(L, LAMBDA l : l.id /= id)
    IN  IF selected /= Str(id) THEN selected
        ELSE IF Len(remainingLayers) > 0 THEN Str(remainingLayers[1].id)
        ELSE Null

\* handleDeleteLayer(id): the last layer cannot be deleted; when the selected
\* layer goes, the first of the remaining layers is selected
HandleDeleteLayer ==
    \E id \in Ids(layers) :
        LET remainingLayers == SelectSeq(layers, LAMBDA layer : layer.id /= id)
        IN  /\ layers' = IF Len(layers) <= 1 THEN layers ELSE remainingLayers
            /\ selectedLayerId' =
                  IF Len(layers) <= 1 THEN selectedLayerId
                  ELSE SelectionAfterDelete(layers, selectedLayerId, id)
            /\ Edited([op |-> "handleDeleteLayer", id |-> id])
            /\ UNCHANGED <<presets, canvasWidth, canvasHeight, exportVars, isTauri, openVars,
                           convVars, taskVars>>

\* handleLayerSelect(id): a click on a layer of the panel
HandleLayerSelect ==
    \E id \in Ids(layers) :
        /\ selectedLayerId' = Str(id)
        /\ Edited([op |-> "handleLayerSelect", id |-> id])
        /\ UNCHANGED <<hostVars, exportVars, isTauri, openVars, convVars, taskVars>>

\* handleNewProject
HandleNewProject ==
    /\ layers' = <<>>
    /\ presets' = <<>>
    /\ canvasWidth' = Num(1920)
    /\ canvasHeight' = Num(1080)
    /\ selectedLayerId' = Null
    /\ Edited([op |-> "handleNewProject"])
    /\ UNCHANGED <<exportVars, isTauri, openVars, convVars, taskVars>>

\* handleReorderLayers(draggedId, targetId): move, then zIndex: index
HandleReorderLayers ==
    \E draggedId \in Ids(layers), targetId \in Ids(layers) :
        /\ layers' = IF FindIndex(layers, draggedId) = -1 \/ FindIndex(layers, targetId) = -1
                     THEN layers
                     ELSE LET newLayers == Move(layers, draggedId, targetId)
                          IN  [p \in DOMAIN newLayers |->
                                  [newLayers[p] EXCEPT !.zIndex = p - 1]]
        /\ Edited([op |-> "handleReorderLayers", draggedId |-> draggedId,
                   targetId |-> targetId])
        /\ UNCHANGED <<presets, canvasWidth, canvasHeight, exportVars, isTauri, openVars,
                       convVars, taskVars, selectedLayerId>>

\* (mutant) only the layers that are shown are written down
LayerStatesOfShown(L) ==
    [id \in {L[p].id : p \in {q \in DOMAIN L : L[q].isVisible}} |-> TRUE]

\* savePreset: layers.forEach((layer) => { layerStates[layer.id] = layer.isVisible })
\* (of two layers with one id the later one is the one written last)
LayerStatesOf(L) ==
    [id \in Ids(L) |->
        L[CHOOSE p \in DOMAIN L :
              L[p].id = id /\ \A q \in DOMAIN L : L[q].id = id => q <= p].isVisible]

\* what the user can have typed into the name field
NameInputs == {<<>>, <<" ", "\t">>, <<"A">>, <<" ", "B", " ", "C", " ">>}

\* savePreset with newPresetName as typed: nothing happens for a name that trims
\* to nothing; otherwise setPresets([...presets, newPreset])
SavePreset ==
    \E newPresetName \in NameInputs :
        /\ presets' = IF Trim(newPresetName) = <<>> THEN presets
                      ELSE Append(presets,
                                  [id |-> "preset-" \o ToString(now),
                                   name |-> Trim(newPresetName),
                                   layer_states |-> LayerStatesOf(layers),
                                   created_at |-> ToString(now)])
        /\ Edited([op |-> "savePreset", newPresetName |-> newPresetName])
        /\ UNCHANGED <<layers, canvasWidth, canvasHeight, exportVars, isTauri, openVars,
                       convVars, taskVars, selectedLayerId>>

\* applyPreset(preset): preset.layer_states || preset.layerStates || {}
PresetLayerStates(preset) ==
    IF Has(preset, "layer_states") THEN preset.layer_states
    ELSE IF Has(preset, "layerStates") THEN preset.layerStates
    ELSE <<>>

\* click on a preset: applyPreset(preset) -> onApplyPreset = handleApplyPreset
ApplyPreset ==
    \E k \in DOMAIN presets :
        /\ layers' = HandleApplyPreset(layers, PresetLayerStates(presets[k]))
        /\ Edited([op |-> "applyPreset", preset |-> presets[k]])
        /\ UNCHANGED <<presets, canvasWidth, canvasHeight, exportVars, isTauri, openVars,
                       convVars, taskVars, selectedLayerId>>

\* deletePreset(presetId)
DeletePreset ==
    \E presetId \in Ids(presets) :
        /\ presets' = SelectSeq(presets, LAMBDA p : p.id /= presetId)
        /\ Edited([op |-> "deletePreset", presetId |-> presetId])
        /\ UNCHANGED <<layers, canvasWidth, canvasHeight, exportVars, isTauri, openVars,
                       convVars, taskVars, selectedLayerId>>

\* what a drop can carry as text/plain: the id of a preset of the list, nothing,
\* or the id of something that is not in the list
DraggedIds == Ids(presets) \cup {"", "preset-elsewhere"}

\* PresetManager.handleDrop(e, targetId): draggedId is what the drop carries
HandleDrop ==
    \E draggedId \in DraggedIds, targetId \in Ids(presets) \cup {"preset-elsewhere"} :
        /\ presets' = IF draggedId /= "" /\ draggedId /= targetId
                      THEN Move(presets, draggedId, targetId)
                      ELSE presets
        /\ Edited([op |-> "handleDrop", draggedId |-> draggedId, targetId |-> targetId])
        /\ UNCHANGED <<layers, canvasWidth, canvasHeight, exportVars, isTauri, openVars,
                       convVars, taskVars, selectedLayerId>>

-----------------------------------------------------------------------------
(* Idle values of the parts a specification does not exercise *)

ExportIdle ==
    /\ exportItems = <<>>
    /\ isExporting = FALSE
    /\ exportProgress = 0
    /\ currentExportName = ""
    /\ bulk = IdleBulk
    /\ hidden = <<>>
    /\ run = [o \in Owners |-> IdleRun]
    /\ sink = <<>>
    /\ events = <<>>

OpenIdle ==
    /\ file = EmptyProject
    /\ openResult = NoOpen
    /\ currentProjectPath = ""

NoOp == [op |-> "none"]

PresetIdle ==
    /\ now = 0
    /\ lastOp = NoOp

NoTask == [st |-> "none"]

NoSave == [st |-> "none"]

\* the selection as handleLoadProject or handleNewProject left it: the first
\* layer, or none
SelectionIdle ==
    selectedLayerId = IF Len(layers) > 0 THEN Str(layers[1].id) ELSE Null

TaskIdle ==
    /\ context = HostContext
    /\ task = NoTask
    /\ written = NoSave
    /\ isDialogOpen = FALSE

ConvIdle ==
    /\ inLayers = <<>>
    /\ projectLayers = <<>>
    /\ runtimeLayers = <<>>
    /\ backLayers = <<>>
    /\ convPc = "idle"
    /\ failing = {}

-----------------------------------------------------------------------------
(* Spec: the export pipeline *)

Init ==
    /\ layers \in InitLayers
    /\ presets \in InitPresets
    /\ canvasWidth = Num(1920)
    /\ canvasHeight = Num(1080)
    /\ exportItems = InitializeExportItems(presets, <<>>)
    /\ isExporting = FALSE
    /\ exportProgress = 0
    /\ currentExportName = ""
    /\ bulk = IdleBulk
    /\ hidden = <<>>
    /\ run = [o \in Owners |-> IdleRun]
    /\ isTauri \in BOOLEAN
    /\ sink = <<>>
    /\ events = <<>>
    /\ OpenIdle
    /\ PresetIdle
    /\ TaskIdle
    /\ SelectionIdle
    /\ ConvIdle

\* Spec follows one export operation per behaviour: a quick export, a single
\* export or a bulk export is started only while none has been started.
NothingStarted == bulk.pc = "idle" /\ \A o \in Owners : run[o].st = "idle"

\* The checkboxes of the queue stay usable while a bulk export runs.  exportBulk
\* never reads exportItems again after its first line, so a click commutes with
\* every step of the export: Spec takes the clicks before the export, and one
\* click in the pause that follows the export's first item.
QueueEditable ==
    \/ NothingStarted
    \/ bulk.pc = "wait500" /\ bulk.i = 1 /\ exportItems = bulk.exportItems

Next ==
    \/ NothingStarted /\ HandleQuickExportPNG
    \/ NothingStarted /\ HandleQuickExportJPG
    \/ QuickOnLoad
    \/ QuickOnError
    \/ SaveDialogReturn
    \/ NothingStarted /\ ExportSingle
    \/ NothingStarted /\ ExportBulk
    \/ BulkCapture
    \/ BulkNext
    \/ CaptureOnLoad
    \/ CaptureOnError
    \/ QueueEditable /\ UpdateExportItem

Spec == Init /\ [][Next]_vars

\* SpecLive: Spec under the scheduling the browser gives it.  Every decode that
\* was initiated settles (the claim's assumption: onload or onerror fires for
\* each new Image()), and the two timers of exportBulk (100 ms, 500 ms) fire.
\* Nothing is assumed of the user: no click has to come, and the native save
\* dialog may stay open for ever.  It starts from the hosts of Spec that have
\* no layer or the most layers, the bottom one shown and the others all shown
\* or all hidden, and no preset or the most presets, of which all but the last
\* hold the snapshot that shows no layer of the host.
InitLive ==
    /\ Init
    /\ Len(layers) \in {0, MaxLayers}
    /\ \A p \in DOMAIN layers : layers[p].isVisible = (p = 1 \/ layers[Len(layers)].isVisible)
    /\ Len(presets) \in {0, MaxPresets}
    /\ \A k \in DOMAIN presets :
         k < Len(presets) => ~Truthy(presets[k].layer_states, LayerId(MaxLayers))

SpecLive ==
    /\ InitLive
    /\ [][Next]_vars
    /\ WF_vars(QuickOnLoad \/ QuickOnError)
    /\ WF_vars(CaptureOnLoad \/ CaptureOnError)
    /\ WF_vars(BulkCapture)
    /\ WF_vars(BulkNext)

-----------------------------------------------------------------------------
(* SpecOpen: one project file is selected and opened, in the browser or in  *)
(* the native host, over a host that is fresh or holds an earlier project   *)

HostFresh ==
    /\ layers = <<>>
    /\ presets = <<>>
    /\ canvasWidth = Num(1920)
    /\ canvasHeight = Num(1080)

HostWithProject ==
    /\ layers = ConvertProjectLayersToRuntimeLayers(SortByZIndex(FileLayers))
    /\ presets = MapPresets(<<FilePreset>>)
    /\ canvasWidth = Num(800)
    /\ canvasHeight = Num(600)

InitOpen ==
    /\ HostFresh \/ HostWithProject
    /\ ExportIdle
    /\ isTauri \in BOOLEAN
    /\ OpenIdle
    /\ PresetIdle
    /\ TaskIdle
    /\ SelectionIdle
    /\ ConvIdle

NextOpen ==
    \/ SelectFile
    \/ HandleOpen
    \/ LoadTauriProject

SpecOpen == InitOpen /\ [][NextOpen]_vars

-----------------------------------------------------------------------------
(* SpecConvert: a ProjectLayer array is converted to runtime layers and back *)

\* layers with every field there
ValidPool ==
    {MkProjectLayer(id, z, v) : id \in {"bg", "hero"}, z \in {0, 1}, v \in BOOLEAN}

\* layers with something missing: no z_index; no is_visible; no id, name and
\* file_path; no width
DefectivePool ==
    {[id |-> "bg", name |-> "Name bg", file_path |-> "./assets/bg.png",
      width |-> 800, height |-> 600, is_visible |-> TRUE],
     [id |-> "hero", name |-> "Name hero", file_path |-> "hero.png",
      width |-> 800, height |-> 600, z_index |-> 1],
     [id |-> "", name |-> "", file_path |-> "",
      width |-> 800, height |-> 600, is_visible |-> FALSE, z_index |-> 0],
     [id |-> "bg", name |-> "Name bg", file_path |-> "./assets/bg.png",
      width |-> 0, height |-> 600, is_visible |-> TRUE, z_index |-> 1]}

ProjectLayerPool == ValidPool \cup DefectivePool

ConvInputs == UNION {[1..n -> ProjectLayerPool] : n \in 0..MaxLayers}

InitConvert ==
    /\ HostFresh
    /\ ExportIdle
    /\ isTauri = FALSE
    /\ OpenIdle
    /\ PresetIdle
    /\ TaskIdle
    /\ SelectionIdle
    /\ inLayers \in ConvInputs
    /\ projectLayers = inLayers
    /\ runtimeLayers = <<>>
    /\ backLayers = <<>>
    /\ convPc = "start"
    /\ failing = {}

\* convertProjectLayersToRuntimeLayers(projectLayers): sort() reorders the array
\* it is given, map() builds the runtime layers
ConvertToRuntime ==
    /\ convPc = "start"
    /\ \E sorted \in SortOutcomes(projectLayers) :
         /\ projectLayers' = sorted
         /\ runtimeLayers' = ConvertProjectLayersToRuntimeLayers(sorted)
    /\ convPc' = "runtime"
    /\ UNCHANGED <<hostVars, exportVars, isTauri, openVars, inLayers, backLayers, failing,
                   presetVars, taskVars, selectedLayerId>>

\* convertRuntimeLayersToProjectLayers(layers)
ConvertToProject ==
    /\ convPc = "runtime"
    /\ backLayers' = ConvertRuntimeLayersToProjectLayers(runtimeLayers)
    /\ convPc' = "done"
    /\ UNCHANGED <<hostVars, exportVars, isTauri, openVars, inLayers, projectLayers,
                   runtimeLayers, failing, presetVars, taskVars, selectedLayerId>>

NextConvert ==
    \/ ConvertToRuntime
    \/ ConvertToProject

SpecConvert == InitConvert /\ [][NextConvert]_vars

-----------------------------------------------------------------------------
(* SpecLoad: the layers of a project file are made into runtime layers, by   *)
(* convertProjectLayersToRuntimeLayers in the browser and by                *)
(* loadLayersWithAssets in the native host                                  *)

\* layers of a file, each with an id of its own: two with every field, one
\* without z_index, one without is_visible, one without width and with a
\* negative height
LoadPool ==
    {MkProjectLayer("hero", 1, TRUE),
     MkProjectLayer("bg", 0, FALSE),
     [id |-> "extra", name |-> "Name extra", file_path |-> "extra.png",
      width |-> 800, height |-> 600, is_visible |-> FALSE],
     [id |-> "top", name |-> "Name top", file_path |-> "./assets/hero.png",
      width |-> 800, height |-> 600, z_index |-> 2],
     [id |-> "bare", name |-> "Name bare", file_path |-> "./assets/bg.png",
      width |-> 0, height |-> -5, is_visible |-> TRUE, z_index |-> 0]}

\* the layer arrays a file can hold; for the native host those whose layers all
\* have a z_index and an is_visible
LoadInputs(native) ==
    LET pool == IF native
                THEN {l \in LoadPool : Has(l, "z_index") /\ Has(l, "is_visible")}
                ELSE LoadPool
    IN  UNION {{L \in [1..n -> pool] : \A p, q \in 1..n : p /= q => L[p] /= L[q]} :
                   n \in 0..MaxFileLayers}

InitLoad ==
    /\ HostFresh
    /\ ExportIdle
    /\ isTauri \in BOOLEAN
    /\ OpenIdle
    /\ PresetIdle
    /\ TaskIdle
    /\ SelectionIdle
    /\ inLayers \in LoadInputs(isTauri)
    /\ projectLayers = inLayers
    /\ runtimeLayers = <<>>
    /\ backLayers = <<>>
    /\ convPc = "start"
    /\ failing = {}

\* loadLayersWithAssets(projectData.layers, projectDir): for each layer the
\* resolution of its asset goes through or throws
LoadWithAssets ==
    /\ convPc = "start"
    /\ \E threw \in SUBSET DOMAIN projectLayers :
         /\ failing' = threw
         /\ runtimeLayers' = LoadLayersWithAssets(projectLayers, threw)
    /\ convPc' = "runtime"
    /\ UNCHANGED <<hostVars, exportVars, isTauri, openVars, inLayers, projectLayers,
                   backLayers, presetVars, taskVars, selectedLayerId>>

NextLoad ==
    \/ ~isTauri /\ ConvertToRuntime
    \/ isTauri /\ LoadWithAssets

SpecLoad == InitLoad /\ [][NextLoad]_vars

-----------------------------------------------------------------------------
(* SpecPreset: an editing session over a project: layers are toggled, added, *)
(* deleted and reordered, presets saved, applied, deleted and reordered     *)

EditLayers ==
    {<<MkLayer(1, TRUE), MkLayer(2, FALSE)>>, <<MkLayer(1, FALSE)>>}

\* a preset of the store, with the visibility map under the given key
StoredPreset(id, name, key, states) ==
    [f \in {"id", "name", key, "created_at"} |->
        CASE f = "id" -> id
          [] f = "name" -> name
          [] f = key -> states
          [] OTHER -> "2024-01-01T00:00:00.000Z"]

\* the stores a session starts from: three presets (a snapshot of both layers, a
\* snapshot of an older layer set, one that carries its map as layerStates), or
\* one preset that carries no map
PresetStores ==
    {<<StoredPreset("preset-a", <<"a">>, "layer_states", [id \in LayerIds |-> TRUE]),
       StoredPreset("preset-b", <<"b">>, "layer_states",
                    [id \in {LayerId(1), "layer-gone"} |-> id = "layer-gone"]),
       StoredPreset("preset-c", <<"c">>, "layerStates", [id \in {LayerId(2)} |-> TRUE])>>,
     <<[id |-> "preset-d", name |-> <<"d">>, created_at |-> "2024-01-01T00:00:00.000Z"]>>}

\* Date.now() when the session starts: later than the time any id of the project
\* was made from
StartTime == 1000

InitPreset ==
    /\ layers \in EditLayers
    /\ presets \in PresetStores
    /\ canvasWidth = Num(1920)
    /\ canvasHeight = Num(1080)
    /\ ExportIdle
    /\ isTauri = FALSE
    /\ OpenIdle
    /\ ConvIdle
    /\ now = StartTime
    /\ lastOp = NoOp
    /\ TaskIdle
    /\ SelectionIdle

SessionOpen == now < StartTime + MaxOps

NextPreset ==
    \/ SessionOpen /\ HandleLayerToggleVisibility
    \/ SessionOpen /\ HandleAddLayer
    \/ SessionOpen /\ HandleDeleteLayer
    \/ SessionOpen /\ HandleReorderLayers
    \/ SessionOpen /\ SavePreset
    \/ SessionOpen /\ ApplyPreset
    \/ SessionOpen /\ DeletePreset
    \/ SessionOpen /\ HandleDrop

SpecPreset == InitPreset /\ [][NextPreset]_vars

-----------------------------------------------------------------------------
(* SpecSession: a session of the editor over its layers: a project is       *)
(* opened, a new project started, layers are selected, added, deleted,      *)
(* reordered and toggled, presets applied                                   *)

\* layer arrays of files that pass loadProjectFile: the layers of a project;
\* two layers under one id; a layer without id next to a layer "layer-1"; and,
\* for the browser, a layer without z_index after one with z_index 5
SessionLayers(native) ==
    {FileLayers,
     <<MkProjectLayer("bg", 0, TRUE), MkProjectLayer("bg", 1, FALSE)>>,
     <<MkProjectLayer("layer-1", 0, TRUE),
       [id |-> "", name |-> "", file_path |-> "./assets/hero.png", width |-> 800,
        height |-> 600, is_visible |-> TRUE, z_index |-> 1]>>}
    \cup (IF native THEN {}
          ELSE {<<MkProjectLayer("hero", 5, TRUE),
                  [id |-> "extra", name |-> "Name extra", file_path |-> "extra.png",
                   width |-> 800, height |-> 600, is_visible |-> TRUE]>>})

SessionFiles(native) ==
    [version : {Str("1.0")}, canvas : {Obj([width |-> Num(800), height |-> Num(600)])},
     layers : {Arr(L) : L \in SessionLayers(native)}, presets : {Arr(<<FilePreset>>)}]

InitSession ==
    /\ HostFresh \/ HostWithProject
    /\ ExportIdle
    /\ isTauri \in BOOLEAN
    /\ OpenIdle
    /\ ConvIdle
    /\ now = StartTime
    /\ lastOp = NoOp
    /\ TaskIdle
    /\ SelectionIdle

NextSession ==
    \/ SelectFileFrom(SessionFiles(isTauri))
    \/ HandleOpen
    \/ LoadTauriProject
    \/ SessionOpen /\ HandleNewProject
    \/ SessionOpen /\ HandleLayerSelect
    \/ SessionOpen /\ HandleAddLayer
    \/ SessionOpen /\ HandleDeleteLayer
    \/ SessionOpen /\ HandleReorderLayers
    \/ SessionOpen /\ HandleLayerToggleVisibility
    \/ SessionOpen /\ ApplyPreset

SpecSession == InitSession /\ [][NextSession]_vars

-----------------------------------------------------------------------------
(* SpecPath: the save location over a session in the native host: a project *)
(* is opened from a path or saved under a new one, its layers are edited,   *)
(* and it is saved.  Every click finds the effects of the last render run.  *)

PathFiles == {f \in SessionFiles(TRUE) : f.layers.value = FileLayers}

InitPath ==
    /\ InitSession
    /\ isTauri = TRUE

NextPath ==
    \/ RenewTaskManager
    \/ EffectsRun /\ NothingSaved /\ SelectFileFrom(PathFiles)
    \/ LoadTauriProject
    \/ EffectsRun /\ HandleSave
    \/ EffectsRun /\ HandleSaveAs
    \/ EffectsRun /\ SessionOpen /\ HandleAddLayer
    \/ EffectsRun /\ SessionOpen /\ HandleDeleteLayer
    \/ EffectsRun /\ SessionOpen /\ HandleReorderLayers
    \/ EffectsRun /\ SessionOpen /\ HandleLayerToggleVisibility
    \/ EffectsRun /\ SessionOpen /\ ApplyPreset

SpecPath == InitPath /\ [][NextPath]_vars

-----------------------------------------------------------------------------
(* SpecSave: a project is saved (save or save as), in the browser or in the *)
(* native host, and the file that was written is opened again              *)

\* the layers of a project as an open left them, in the native host or in the
\* browser
OpenedLayers(native) ==
    {IF native THEN LoadLayersWithAssets(L, {})
     ELSE ConvertProjectLayersToRuntimeLayers(SortByZIndex(L)) :
        L \in UNION {[1..n -> ValidPool] : n \in 0..MaxLayers}}

InitSave ==
    /\ isTauri \in BOOLEAN
    /\ layers \in OpenedLayers(isTauri)
    /\ presets \in {<<>>, MapPresets(<<FilePreset>>)}
    /\ canvasWidth \in {Num(800), Num(1920)}
    /\ canvasHeight = Num(1080)
    /\ ExportIdle
    /\ file = EmptyProject
    /\ openResult = NoOpen
    /\ currentProjectPath \in {"", ProjectPath}
    /\ ConvIdle
    /\ PresetIdle
    /\ TaskIdle
    /\ SelectionIdle

NextSave ==
    \/ NothingSaved /\ HandleSave
    \/ NothingSaved /\ HandleSaveAs
    \/ SelectWritten
    \/ HandleOpen
    \/ LoadTauriProject

SpecSave == InitSave /\ [][NextSave]_vars

-----------------------------------------------------------------------------
(* SpecTask: one task is handed to executeTask, and what it starts runs on  *)

InitTask ==
    /\ layers \in InitLayers
    /\ presets = <<>>
    /\ canvasWidth = Num(1920)
    /\ canvasHeight = Num(1080)
    /\ ExportIdle
    /\ isTauri \in BOOLEAN
    /\ file = EmptyProject
    /\ openResult = NoOpen
    /\ currentProjectPath \in {"", ProjectPath}
    /\ ConvIdle
    /\ PresetIdle
    /\ TaskIdle
    /\ SelectionIdle

NextTask ==
    \/ ExecuteTask
    \/ Dispatched("handleQuickExportPNG") /\ HandleQuickExportPNG
    \/ Dispatched("handleQuickExportJPG") /\ HandleQuickExportJPG
    \/ QuickOnLoad
    \/ QuickOnError
    \/ SaveDialogReturn
    \/ Dispatched("handleBulkExport") /\ HandleBulkExport
    \/ Dispatched("handleSave") /\ NothingSaved /\ HandleSave
    \/ Dispatched("handleSaveAs") /\ NothingSaved /\ HandleSaveAs
    \/ Dispatched("handleOpen") /\ SelectFile
    \/ HandleOpen
    \/ LoadTauriProject

SpecTask == InitTask /\ [][NextTask]_vars

-----------------------------------------------------------------------------
(* SpecOverlap: the export dialog with both of its buttons in use: "Export  *)
(* Current State" is never disabled, so a single export can be started      *)
(* while a bulk export runs, and a bulk export while a single one decodes   *)

InitOverlap ==
    /\ Init
    /\ ~isTauri

NextOverlap ==
    \/ ExportSingle
    \/ ExportBulk
    \/ BulkCapture
    \/ BulkNext
    \/ CaptureOnLoad
    \/ CaptureOnError

SpecOverlap == InitOverlap /\ [][NextOverlap]_vars

-----------------------------------------------------------------------------
(* SpecContext: a quick export runs on a TaskManager whose owner goes on     *)
(* calling updateContext                                                    *)

InitContext ==
    /\ Init
    /\ presets = <<>>

NextContext ==
    \/ HandleQuickExportPNG
    \/ HandleQuickExportJPG
    \/ QuickOnLoad
    \/ QuickOnError
    \/ SaveDialogReturn
    \/ UpdateContext

SpecContext == InitContext /\ [][NextContext]_vars

-----------------------------------------------------------------------------
(* SpecQueue: the export dialog is opened and closed, by hand and by the    *)
(* bulk-export task, while presets are saved and deleted in between         *)

InitQueue ==
    /\ InitPreset
    /\ layers = <<MkLayer(1, TRUE), MkLayer(2, FALSE)>>

NextQueue ==
    \/ HandleDialogOpenChange
    \/ HandleBulkExport
    \/ SessionOpen /\ SavePreset
    \/ SessionOpen /\ DeletePreset
    \/ UpdateExportItem

SpecQueue == InitQueue /\ [][NextQueue]_vars

-----------------------------------------------------------------------------
(* Claims about the export pipeline (checked under Spec) *)

\* zIndex of the layer of composite r that has this id
ZOf(r, id) == (CHOOSE l \in Range(r.cur) : l.id = id).zIndex

Started(o) == run[o].st /= "idle"

\* C1: in one composite the layers are drawn in strictly ascending zIndex order,
\* whatever the order in which their decodes complete.
C1_PaintOrderAscending ==
    \A o \in Owners :
        \A i, j \in DOMAIN run[o].drawn :
            i < j => ZOf(run[o], run[o].drawn[i]) < ZOf(run[o], run[o].drawn[j])

\* C2: a composite has resolved, and its image has been handed to the sink, only
\* when none of its decodes is outstanding.
C2_JoinBeforeResolve ==
    /\ \A o \in Owners :
          run[o].st \notin {"idle", "decoding"} =>
              /\ run[o].pending = {}
              /\ run[o].loaded = Len(run[o].cur)
    /\ \A n \in DOMAIN sink :
          /\ sink[n].by \in {"quick", "single"} => run[sink[n].by].st \notin {"idle", "decoding"}
          /\ (sink[n].by = "bulk" /\ bulk.pc = "capturing") => sink[n].name /= BulkItem.name
    /\ bulk.pc \in {"wait100", "wait500", "finished"} => run["bulk"].pending = {}

C2_Witness ==
    \E o \in Owners :
        /\ run[o].st = "resolved"
        /\ Len(run[o].cur) >= 2
        /\ \E n \in DOMAIN sink : sink[n].by = o

\* C3: once all decodes of a composite have settled it has completed, whatever
\* subset of them failed (only the native save dialog throwing makes a quick
\* export end otherwise), and it drew exactly the layers whose decode succeeded,
\* each once; that is the image handed to the sink.
C3_BestEffortComposite ==
    /\ \A o \in Owners :
          (Started(o) /\ run[o].pending = {}) =>
              /\ run[o].st /= "decoding"
              /\ (o /= "quick" \/ ~isTauri) => run[o].st = "resolved"
              /\ run[o].failed \subseteq Ids(run[o].cur)
              /\ Range(run[o].drawn) = Ids(run[o].cur) \ run[o].failed
              /\ Len(run[o].drawn) = Len(run[o].cur) - Cardinality(run[o].failed)
    /\ \A n \in DOMAIN sink :
          sink[n].by \in {"quick", "single"} =>
              Range(sink[n].content) = Ids(run[sink[n].by].cur) \ run[sink[n].by].failed

C3_Witness ==
    \E o \in Owners :
        /\ run[o].st = "resolved"
        /\ run[o].failed /= {}
        /\ run[o].drawn /= <<>>
        /\ \E n \in DOMAIN sink : sink[n].by = o /\ sink[n].content = run[o].drawn

\* the log of a bulk export that processes these item ids one at a time, in order
RECURSIVE OneAtATime(_)
OneAtATime(ids) ==
    IF ids = <<>> THEN <<>>
    ELSE <<[t |-> "start", item |-> Head(ids)], [t |-> "end", item |-> Head(ids)]>>
         \o OneAtATime(Tail(ids))

IsPrefix(a, b) == Len(a) <= Len(b) /\ a = SubSeq(b, 1, Len(a))

\* C4: a bulk export processes the items that are enabled in the queue it was
\* started on, in queue order, one at a time (an item's capture starts only after
\* the previous item's capture has ended with no decode outstanding), and never an
\* item that was disabled in that queue.
C4_BulkSequential ==
    LET queue == IF bulk.pc = "idle" THEN exportItems ELSE bulk.exportItems
        enabledIds == [k \in DOMAIN SelectSeq(queue, LAMBDA it : it.enabled) |->
                          SelectSeq(queue, LAMBDA it : it.enabled)[k].id]
        log == [k \in DOMAIN events |-> [t |-> events[k].t, item |-> events[k].item]]
    IN  /\ IsPrefix(log, OneAtATime(enabledIds))
        /\ bulk.pc = "finished" => log = OneAtATime(enabledIds)
        /\ bulk.pc \in {"wait100", "wait500", "finished"} => run["bulk"].pending = {}
        /\ bulk.pc = "capturing" => events[Len(events)].t = "start"
        /\ \A k \in DOMAIN events :
              \E n \in DOMAIN queue :
                  queue[n].id = events[k].item /\ queue[n].enabled

C4_Witness ==
    /\ bulk.pc = "finished"
    /\ Len(events) = 4
    /\ events[2].item /= events[3].item
    /\ exportItems /= bulk.exportItems

\* C5: when the capture of an enabled item fails, the item is recorded as failed,
\* every other enabled item is still written, and the progress reaches 100%.
C5_FailureRecorded ==
    (bulk.pc = "wait500" /\ bulk.i = Len(bulk.enabledItems)) =>
        /\ exportProgress = 100
        /\ \A k \in DOMAIN events :
              events[k].t = "end" =>
                  IF events[k].ok
                  THEN \E n \in DOMAIN sink :
                          /\ sink[n].by = "bulk"
                          /\ \E m \in DOMAIN bulk.enabledItems :
                                /\ bulk.enabledItems[m].id = events[k].item
                                /\ bulk.enabledItems[m].name = sink[n].name
                  ELSE events[k].item \in FailedItems

\* C6: an export never changes the host's layers: during and after a bulk export
\* every layer is as it was when the export was started.
C6_LayersUntouched ==
    bulk.pc /= "idle" => layers = bulk.layers

\* the composite of o has run on a canvas and found no layer to draw
EmptyComposite(o) ==
    /\ Started(o)
    /\ run[o].buffer /= NoBuffer
    /\ run[o].cur = <<>>

\* C18: a composite whose filtered layer set is empty (no layer, or none shown)
\* has a canvas of exactly canvasWidth x canvasHeight with nothing drawn on it,
\* has started no decode, and has completed: a capture has resolved with that
\* blank image; a quick export has handed it to the download, and is over unless
\* the native save dialog is still open or has thrown.
C18_EmptyCompositeBlank ==
    /\ \A o \in Owners :
          EmptyComposite(o) =>
              /\ run[o].buffer = [width |-> canvasWidth, height |-> canvasHeight]
              /\ run[o].drawn = <<>> /\ run[o].geom = <<>>
              /\ run[o].pending = {} /\ run[o].loaded = 0 /\ run[o].failed = {}
              /\ IF o = "quick" /\ isTauri
                 THEN run[o].st \in {"saving", "resolved", "rejected"}
                 ELSE run[o].st = "resolved"
    /\ \A o \in {"quick", "single"} :
          (EmptyComposite(o) /\ ~isTauri) =>
              \E n \in DOMAIN sink :
                  /\ sink[n].by = o
                  /\ sink[n].content = <<>>
                  /\ sink[n].size = [width |-> canvasWidth, height |-> canvasHeight]
    /\ (bulk.pc = "wait500" /\ EmptyComposite("bulk")) =>
          /\ sink /= <<>>
          /\ sink[Len(sink)].by = "bulk" /\ sink[Len(sink)].content = <<>>
          /\ sink[Len(sink)].size = [width |-> canvasWidth, height |-> canvasHeight]

C18_Witness ==
    /\ layers /= <<>>
    /\ \E o \in {"quick", "single"} :
          /\ EmptyComposite(o)
          /\ run[o].st = "resolved"
          /\ sink /= <<>>

\* the capture of the bulk item in hand has got as far as choosing its layers
BulkItemChosen ==
    /\ bulk.pc \in {"capturing", "wait500"}
    /\ run["bulk"].buffer /= NoBuffer

\* C21: the layers a bulk item composites are the layers that are visible once
\* the item's preset has been applied to the current layers (the host's layers
\* are in that state while the item is captured): a layer the preset names is in
\* or out as the preset says, a layer it does not name as its own isVisible says.
C21_ItemLayersAfterPreset ==
    BulkItemChosen =>
        Ids(run["bulk"].cur) = {layers[p].id : p \in {q \in DOMAIN layers : layers[q].isVisible}}

\* downloadCanvas has thrown in the quick export: its promise was rejected
\* ("rejected") or was left unsettled for good ("hung")
QuickWriteFailed == run["quick"].st \in {"rejected", "hung"}

\* C23: when the write of a quick export fails, the export itself fails: its
\* promise (the one executeTask returns) is rejected, also when the write was
\* attempted after the last decode of a non-empty layer set.
C23_WriteFailureRejects ==
    QuickWriteFailed => run["quick"].st = "rejected"

-----------------------------------------------------------------------------
(* Claims about validation and open (checked under SpecOpen) *)

\* the conditions of validate, as the specification words them
VersionPresent(p) == p.version \notin {Undefined, Str("")}
CanvasNumeric(p) ==
    /\ p.canvas.type = "object"
    /\ p.canvas.value.width.type = "number"
    /\ p.canvas.value.height.type = "number"
LayersIsSequence(p) == p.layers.type = "array"
PresetsIsSequence(p) == p.presets.type = "array"
CanvasPositive(p) ==
    CanvasNumeric(p) => (p.canvas.value.width.value > 0 /\ p.canvas.value.height.value > 0)
CanvasWithinMax(p) ==
    CanvasNumeric(p) =>
        (p.canvas.value.width.value <= 50000 /\ p.canvas.value.height.value <= 50000)

\* the checks in the specification's order, each with the error the code words
\* for it: MissingVersion, InvalidCanvas, InvalidLayers, InvalidPresets,
\* NonPositiveCanvas, CanvasTooLarge
ValidationChecks(p) ==
    <<[holds |-> VersionPresent(p), error |-> "Missing version field"],
      [holds |-> CanvasNumeric(p), error |-> "Missing or invalid canvas dimensions"],
      [holds |-> LayersIsSequence(p), error |-> "Missing or invalid layers array"],
      [holds |-> PresetsIsSequence(p), error |-> "Missing or invalid presets array"],
      [holds |-> CanvasPositive(p), error |-> "Canvas dimensions must be positive"],
      [holds |-> CanvasWithinMax(p), error |-> "Canvas dimensions are too large (max 50000px)"]>>

Violated(checks) == {i \in DOMAIN checks : ~checks[i].holds}

FirstViolated(checks) ==
    IF Violated(checks) = {} THEN ""
    ELSE checks[CHOOSE i \in Violated(checks) : \A j \in Violated(checks) : i <= j].error

ValidProject(p) == Violated(ValidationChecks(p)) = {}

\* loadProjectFile has run on the selected file (the browser's open path)
Validated == ~isTauri /\ openResult.st \in {"loaded", "alerted"}

WithWidth(p, w) == [p EXCEPT !.canvas = Obj([width |-> w, height |-> p.canvas.value.height])]

\* C7: loadProjectFile reports the error of the first violated check, in the order
\* version present (an absent and an empty version both count as missing), canvas
\* with numeric width and height, layers a sequence, presets a sequence, width and
\* height > 0, width and height <= 50000; of several violated checks only the
\* earliest is reported, and no error when none is violated.
C7_FirstViolatedReported ==
    Validated => openResult.error = FirstViolated(ValidationChecks(file))

C7_Witness ==
    /\ Validated
    /\ Cardinality(Violated(ValidationChecks(file))) >= 2
    /\ ~CanvasPositive(file)
    /\ openResult.error = "Missing version field"

\* C8: loadProjectFile accepts a file exactly when version is present, canvas has
\* numeric width and height, layers and presets are sequences and both dimensions
\* are in 1..50000; an otherwise valid file with width 0 is refused as not
\* positive, one with width 60000 as too large, and 1920 x 1080 is accepted.
C8_AcceptsIffValid ==
    Validated =>
        /\ openResult.st = "loaded" <=> ValidProject(file)
        /\ (CanvasNumeric(file) /\ ValidProject(WithWidth(file, Num(1920)))) =>
              /\ file.canvas.value.width.value = 0 =>
                    openResult.error = "Canvas dimensions must be positive"
              /\ file.canvas.value.width.value = 60000 =>
                    openResult.error = "Canvas dimensions are too large (max 50000px)"
              /\ (file.canvas.value.width.value = 1920 /\ file.canvas.value.height.value = 1080) =>
                    openResult.st = "loaded"

C8_Witness ==
    /\ Validated
    /\ CanvasNumeric(file)
    /\ file.canvas.value.width.value = 60000
    /\ ValidProject(WithWidth(file, Num(1920)))
    /\ openResult = [st |-> "alerted", invoked |-> FALSE,
                     error |-> "Canvas dimensions are too large (max 50000px)"]

\* C9: on either open path, opening a file that violates a validation check does
\* not invoke onLoadProject and leaves the host's layers, presets and canvas size
\* as they were.
C9_InvalidRejectedWhole ==
    [][(openResult.st = "selected" /\ openResult'.st /= "selected" /\ ~ValidProject(file))
          => (~openResult'.invoked /\ hostVars' = hostVars)]_vars

-----------------------------------------------------------------------------
(* Claims about the converters (checked under SpecConvert) *)

\* every field there, the strings not empty, width and height > 0
ValidLayers(L) ==
    \A p \in DOMAIN L :
        /\ DOMAIN L[p] = {"id", "name", "file_path", "width", "height", "is_visible", "z_index"}
        /\ L[p].id /= "" /\ L[p].name /= "" /\ L[p].file_path /= ""
        /\ L[p].width > 0 /\ L[p].height > 0

\* out holds the elements of in in non-decreasing z_index order, elements of
\* equal z_index in the order they have in in
IsStableSortOf(out, in) ==
    /\ Len(out) = Len(in)
    /\ \E f \in [DOMAIN out -> DOMAIN in] :
          /\ \A p \in DOMAIN out : out[p] = in[f[p]]
          /\ \A p, q \in DOMAIN out :
                p < q => \/ out[p].z_index < out[q].z_index
                         \/ out[p].z_index = out[q].z_index /\ f[p] < f[q]

InZOrder(L) == \A p, q \in DOMAIN L : p < q => L[p].z_index <= L[q].z_index

\* C10 as stated: the round trip gives back L, element for element, in the same
\* order.
C10_RoundTripIdentity ==
    (convPc = "done" /\ ValidLayers(inLayers)) => backLayers = inLayers

\* C10 amended: the round trip gives back the elements of L unchanged, stably
\* sorted by ascending z_index; it gives back L itself exactly when L is in
\* non-decreasing z_index order.  The array handed in has been put in that same
\* order.
C10_RoundTripSorted ==
    (convPc = "done" /\ ValidLayers(inLayers)) =>
        /\ IsStableSortOf(backLayers, inLayers)
        /\ backLayers = inLayers <=> InZOrder(inLayers)
        /\ projectLayers = backLayers

C10_Witness ==
    /\ convPc = "done"
    /\ ValidLayers(inLayers)
    /\ Len(inLayers) >= 2
    /\ ~InZOrder(inLayers)
    /\ backLayers /= inLayers

\* the fields of a persisted layer that the round trip has to carry
Carried(l) ==
    [id |-> l.id, file_path |-> l.file_path, width |-> l.width, height |-> l.height,
     is_visible |-> l.is_visible]

\* C11: over the layers of a valid project file the round trip loses and adds no
\* layer: the result pairs off one to one with the layers of the file, each
\* result with the id, file_path, width, height and is_visible of its partner.
C11_RoundTripKeepsLayers ==
    (convPc = "done" /\ ValidLayers(inLayers)) =>
        /\ Len(backLayers) = Len(inLayers)
        /\ \E f \in [DOMAIN backLayers -> DOMAIN inLayers] :
              /\ \A p, q \in DOMAIN backLayers : p /= q => f[p] /= f[q]
              /\ \A p \in DOMAIN backLayers : Carried(backLayers[p]) = Carried(inLayers[f[p]])

C11_Witness ==
    /\ convPc = "done"
    /\ ValidLayers(inLayers)
    /\ Len(inLayers) = 2
    /\ inLayers[1].id /= inLayers[2].id
    /\ ~inLayers[1].is_visible /\ inLayers[2].is_visible
    /\ backLayers[1].id = inLayers[2].id

-----------------------------------------------------------------------------
(* Claims about editing (checked under SpecPreset) *)

\* the step that has just been taken is the editing operation op
Did(op) == lastOp'.op = op /\ now' = now + 1

\* C12: applying a preset leaves the layer set with the same length and order;
\* a layer whose id the preset's map names gets the visibility the map gives, a
\* layer it does not name keeps its own; ids of the map that match no layer
\* change nothing; every other field of every layer stays as it was.
C12_ApplyPresetVisibility ==
    [][Did("applyPreset") =>
          LET layerStates == PresetLayerStates(lastOp'.preset)
          IN  /\ Len(layers') = Len(layers)
              /\ \A p \in DOMAIN layers :
                    /\ DOMAIN layers'[p] = DOMAIN layers[p]
                    /\ \A f \in DOMAIN layers[p] \ {"isVisible"} :
                          layers'[p][f] = layers[p][f]
                    /\ layers'[p].isVisible =
                          IF layers[p].id \in DOMAIN layerStates
                          THEN layerStates[layers[p].id]
                          ELSE layers[p].isVisible]_vars

C12_Witness ==
    /\ lastOp.op = "applyPreset"
    /\ LET layerStates == PresetLayerStates(lastOp.preset)
       IN  /\ \E id \in DOMAIN layerStates : id \notin Ids(layers)
           /\ \E p \in DOMAIN layers :
                 layers[p].id \in DOMAIN layerStates /\ ~layers[p].isVisible
           /\ \E p \in DOMAIN layers :
                 layers[p].id \notin DOMAIN layerStates /\ layers[p].isVisible

\* C13: the map of a preset that has just been saved names exactly the layers
\* there are at that moment, each with the visibility it has then; and no step
\* (toggle, apply, add, delete, reorder, or anything done to other presets)
\* changes a preset that stays in the store.
C13_SnapshotImmutable ==
    [][/\ (Did("savePreset") /\ Len(presets') = Len(presets) + 1) =>
             LET saved == presets'[Len(presets')]
             IN  /\ DOMAIN saved.layer_states = Ids(layers)
                 /\ \A p \in DOMAIN layers :
                       saved.layer_states[layers[p].id] = layers[p].isVisible
       /\ \A k \in DOMAIN presets, k2 \in DOMAIN presets' :
             presets'[k2].id = presets[k].id => presets'[k2] = presets[k]]_vars

C13_Witness ==
    /\ lastOp.op \in {"handleLayerToggleVisibility", "applyPreset", "handleAddLayer",
                      "handleDeleteLayer", "handleReorderLayers"}
    /\ \E k \in DOMAIN presets :
          /\ presets[k].id = "preset-" \o ToString(StartTime)
          /\ \E id \in DOMAIN presets[k].layer_states : ~presets[k].layer_states[id]
          /\ presets[k].layer_states /= LayerStatesOf(layers)

\* a name with nothing in it but white space
Blank(name) == \A i \in DOMAIN name : name[i] \in Whitespace

PositionOf(P, id) == FindIndex(P, id) + 1

\* the list without the preset that was dragged
Others(P, draggedId) == SelectSeq(P, LAMBDA x : x.id /= draggedId)

\* the drop is one that moves: both ids are in the list and they differ
Moves(P, draggedId, targetId) ==
    /\ draggedId \in Ids(P)
    /\ targetId \in Ids(P)
    /\ draggedId /= targetId

\* C15 as stated: a drop that moves puts the dragged preset immediately before
\* the target, the other presets in the order they had; any other drop changes
\* nothing.
C15_MovedBeforeTarget ==
    [][Did("handleDrop") =>
          LET draggedId == lastOp'.draggedId
              targetId == lastOp'.targetId
          IN  IF Moves(presets, draggedId, targetId)
              THEN /\ PositionOf(presets', draggedId) + 1 = PositionOf(presets', targetId)
                   /\ Others(presets', draggedId) = Others(presets, draggedId)
              ELSE presets' = presets]_vars

\* C15 amended: a drop that moves puts the dragged preset at the position the
\* target had, the other presets in the order they had: immediately before the
\* target when the dragged preset came after it, immediately after the target
\* when it came before it; any other drop changes nothing.
C15_MovedToTargetPosition ==
    [][Did("handleDrop") =>
          LET draggedId == lastOp'.draggedId
              targetId == lastOp'.targetId
          IN  IF Moves(presets, draggedId, targetId)
              THEN /\ PositionOf(presets', draggedId) = PositionOf(presets, targetId)
                   /\ Others(presets', draggedId) = Others(presets, draggedId)
                   /\ PositionOf(presets', targetId) =
                         IF PositionOf(presets, draggedId) > PositionOf(presets, targetId)
                         THEN PositionOf(presets', draggedId) + 1
                         ELSE PositionOf(presets', draggedId) - 1
              ELSE presets' = presets]_vars

C15_Witness ==
    /\ lastOp.op = "handleDrop"
    /\ Len(presets) = 3
    /\ Moves(presets, lastOp.draggedId, lastOp.targetId)
    /\ PositionOf(presets, lastOp.draggedId) = PositionOf(presets, lastOp.targetId) + 1

-----------------------------------------------------------------------------
(* Claims about saving (checked under SpecSave) *)

\* C16: the file that save or save as writes holds the canvas size, every layer
\* and every preset the host has, in order; and once that file has been opened
\* the host has the layers and the presets it had when the file was written.
C16_SavedFileRestores ==
    /\ written.st = "written" =>
          /\ written.data.canvas =
                Obj([width |-> written.from.canvasWidth, height |-> written.from.canvasHeight])
          /\ Len(written.data.layers.value) = Len(written.from.layers)
          /\ \A p \in DOMAIN written.from.layers :
                written.data.layers.value[p].id = written.from.layers[p].id
          /\ Len(written.data.presets.value) = Len(written.from.presets)
          /\ \A k \in DOMAIN written.from.presets :
                written.data.presets.value[k].id = written.from.presets[k].id
    /\ (written.st = "written" /\ openResult.st = "loaded") =>
          /\ layers = written.from.layers
          /\ presets = written.from.presets

-----------------------------------------------------------------------------
(* Claims about executeTask (checked under SpecTask) *)

\* the handler each kind of request belongs to
HandlerOf ==
    [type \in TaskTypes |->
        CASE type = "open" -> "handleOpen"
          [] type = "save" -> "handleSave"
          [] type = "save-as" -> "handleSaveAs"
          [] type = "quick-export-png" -> "handleQuickExportPNG"
          [] type = "quick-export-jpg" -> "handleQuickExportJPG"
          [] type = "bulk-export" -> "handleBulkExport"]

\* the handlers that begin to run in the step that is being taken
Beginning ==
    {h \in {HandlerOf[type] : type \in TaskTypes} :
        CASE h = "handleOpen" -> openResult.st = "none" /\ openResult'.st /= "none"
          [] h = "handleSave" -> written.st = "none" /\ written'.st /= "none"
                                    /\ written'.by = "handleSave"
          [] h = "handleSaveAs" -> written.st = "none" /\ written'.st /= "none"
                                      /\ written'.by = "handleSaveAs"
          [] h = "handleQuickExportPNG" -> run["quick"].st = "idle" /\ run'["quick"].st /= "idle"
                                              /\ run'["quick"].fmt = "png"
          [] h = "handleQuickExportJPG" -> run["quick"].st = "idle" /\ run'["quick"].st /= "idle"
                                              /\ run'["quick"].fmt = "jpg"
          [] h = "handleBulkExport" -> ~isDialogOpen /\ isDialogOpen'}

\* C17: executeTask with a kind outside the six fails with the unknown-kind
\* error, begins no handler, writes to no sink, and leaves the context, the save
\* location and the host as they were, and nothing happens afterwards on its
\* account; a kind inside the six is dispatched, and the only handler that ever
\* begins for it is the one of its kind.
C17_UnknownKindRejected ==
    [][/\ task.st = "none" =>
             /\ Beginning = {}
             /\ IF task'.type \in TaskTypes
                THEN task'.st = "dispatched" /\ task'.handler = HandlerOf[task'.type]
                ELSE /\ task'.st = "thrown"
                     /\ task'.error = "Unknown task type: " \o task'.type
                     /\ UNCHANGED <<hostVars, exportVars, openVars, context, written,
                                    isDialogOpen>>
       /\ task.st = "dispatched" => Beginning \subseteq {HandlerOf[task.type]}
       /\ task.st /= "thrown"]_vars

C17_Witness ==
    /\ task.st = "thrown"
    /\ task.type = "export-gif"
    /\ layers /= <<>>
    /\ currentProjectPath = ProjectPath

-----------------------------------------------------------------------------
(* Claims about overlapping exports (checked under SpecOverlap) *)

\* the composite of o has decodes outstanding
Decoding(o) == run[o].st = "decoding" /\ run[o].pending /= {}

\* C19: no two composites that overlap in time use the same buffer.  The single
\* export and every bulk item run captureCanvas on the one hidden canvas, so
\* this says that the two never have decodes outstanding at the same time.
C19_ExclusiveBuffer == ~(Decoding("single") /\ Decoding("bulk"))

-----------------------------------------------------------------------------
(* Claims about the context of a quick export (checked under SpecContext) *)

\* the layer of the quick export with this id
QuickLayer(id) == CHOOSE l \in Range(run["quick"].cur) : l.id = id

\* C20: a quick export works throughout on what the context held when it was
\* dispatched: its canvas has the size of that moment, and every layer it draws
\* is scaled and placed for that size, whatever updateContext has been given
\* since.
C20_ContextAtDispatch ==
    LET r == run["quick"]
    IN  \A i \in DOMAIN r.geom :
            r.geom[i] = ScaleToFit(QuickLayer(r.drawn[i]), r.buffer.width, r.buffer.height)

-----------------------------------------------------------------------------
(* Claims about the export queue (checked under SpecQueue) *)

\* one enabled item per preset, in preset order
QueueOf(P) ==
    [k \in DOMAIN P |->
        [id |-> "export-" \o P[k].id, name |-> P[k].name, preset |-> P[k],
         format |-> "png", quality |-> 90, enabled |-> TRUE]]

\* C22: whenever the export dialog opens (by hand or by the bulk-export task)
\* the queue is one enabled item per preset that is in the store at that
\* moment, in the order of the store, and nothing else: no item of an earlier
\* session, none of a preset deleted since.
C22_QueueBuiltFresh ==
    [][(~isDialogOpen /\ isDialogOpen') => exportItems' = QueueOf(presets)]_vars

-----------------------------------------------------------------------------
(* Claims about loading layers (checked under SpecLoad) *)

\* 0-based position in the file of the layer a runtime layer was made from (the
\* layers of a file have ids of their own here)
FilePosition(id) == (CHOOSE q \in DOMAIN inLayers : inLayers[q].id = id) - 1

\* the layer of the file a runtime layer was made from
FileLayer(id) == inLayers[FilePosition(id) + 1]

\* C24: once loaded, a layer whose width or height is missing or not positive in
\* the file has width 1920 or height 1080, a layer without is_visible is visible,
\* and a layer without z_index has as zIndex its position in the layers array
\* of the file.
C24_LoadDefaults ==
    convPc = "runtime" =>
        \A p \in DOMAIN runtimeLayers :
            LET loaded == runtimeLayers[p]
                layer == FileLayer(loaded.id)
            IN  /\ layer.width <= 0 => loaded.width = 1920
                /\ layer.height <= 0 => loaded.height = 1080
                /\ ~Has(layer, "is_visible") => loaded.isVisible
                /\ ~Has(layer, "z_index") => loaded.zIndex = FilePosition(loaded.id)

\* loadLayersWithAssets has run over the layers of the file
LoadedWithAssets == isTauri /\ convPc = "runtime"

\* C25: whichever layers' asset resolution throws, loadLayersWithAssets gives
\* exactly one runtime layer per layer of the file; each has the id, name,
\* file_path, width, height, visibility and zIndex of its layer; a layer whose
\* resolution threw has a placeholder as src, every other layer the URL of its
\* asset.
C25_PlaceholderPerFailure ==
    LoadedWithAssets =>
        /\ Len(runtimeLayers) = Len(inLayers)
        /\ \A q \in DOMAIN inLayers :
              /\ Cardinality({p \in DOMAIN runtimeLayers :
                                  runtimeLayers[p].id = inLayers[q].id}) = 1
              /\ \E p \in DOMAIN runtimeLayers :
                    LET loaded == runtimeLayers[p]
                        layer == inLayers[q]
                    IN  /\ loaded.id = layer.id
                        /\ loaded.name = layer.name
                        /\ loaded.file_path = layer.file_path
                        /\ loaded.width = layer.width
                        /\ loaded.height = layer.height
                        /\ loaded.isVisible = layer.is_visible
                        /\ loaded.zIndex = layer.z_index
                        /\ IF q \in failing
                           THEN loaded.src.kind = "placeholder"
                           ELSE loaded.src = [kind |-> "asset-url", of |-> layer.file_path]

C25_Witness ==
    /\ LoadedWithAssets
    /\ Len(inLayers) = 3
    /\ failing = {1, 3}
    /\ runtimeLayers[1].id /= inLayers[1].id

-----------------------------------------------------------------------------
(* Claims about a session of the editor (checked under SpecSession) *)

\* C26: whatever has been done (open, new project, add, delete, reorder,
\* toggle, apply preset), no two layers of the host have the same id.
C26_UniqueLayerIds ==
    \A p, q \in DOMAIN layers : p /= q => layers[p].id /= layers[q].id

\* the array is in non-decreasing zIndex order
InPaintOrder(L) == \A p, q \in DOMAIN L : p < q => L[p].zIndex <= L[q].zIndex

\* C29 as stated: whatever has been done (open, add, delete, reorder, toggle,
\* apply preset), the host's layer array is in non-decreasing zIndex order.
C29_ArrayInPaintOrder == InPaintOrder(layers)

\* no project has been opened, or every layer of the file that was opened has
\* a z_index
OpenedWithZIndex ==
    openResult.st = "loaded" =>
        \A p \in DOMAIN file.layers.value : Has(file.layers.value[p], "z_index")

\* C29 amended: the host's layer array is in non-decreasing zIndex order
\* whatever has been done, provided every layer of a file that was opened
\* carries a z_index.
C29_ArrayInPaintOrderGivenZIndex == OpenedWithZIndex => InPaintOrder(layers)

C29_Witness ==
    /\ openResult.st = "loaded"
    /\ file.layers.value = FileLayers
    /\ lastOp.op = "handleAddLayer"
    /\ Len(layers) = 3
    /\ layers[1].id = "bg"
    /\ layers[3].zIndex = 2

\* C30: whatever has been done (open, new project, add, delete, select,
\* reorder), selectedLayerId is null or the id of a layer of the host.
C30_SelectionInLayerSet ==
    \/ selectedLayerId = Null
    \/ \E p \in DOMAIN layers : selectedLayerId = Str(layers[p].id)

C30_Witness ==
    /\ now = StartTime + 1
    /\ lastOp = [op |-> "handleDeleteLayer", id |-> "bg"]
    /\ Ids(layers) = {"hero"}
    /\ selectedLayerId = Str("hero")

-----------------------------------------------------------------------------
(* Termination of the composites and of the bulk export *)

SingleStarted == run["single"].st /= "idle"

QuickStarted == run["quick"].st /= "idle"

\* the quick export's join is through: every decode was counted and
\* downloadCanvas has been called with the composite, which in the browser
\* downloads it and resolves the export
QuickCompositeDone ==
    /\ run["quick"].st /= "decoding"
    /\ run["quick"].pending = {}
    /\ run["quick"].loaded = Len(run["quick"].cur)
    /\ ~isTauri => run["quick"].st = "resolved"

BulkStarted == bulk.pc /= "idle"

\* exportBulk has returned: every enabled item had its capture resolved, and
\* isExporting is false again
BulkDone ==
    /\ bulk.pc = "finished"
    /\ ~isExporting
    /\ \A k \in DOMAIN bulk.enabledItems :
         \E e \in Range(events) : e.t = "end" /\ e.item = bulk.enabledItems[k].id

\* C27: with every initiated decode settling, a started captureCanvas
\* eventually resolves, a started quick export eventually has its composite
\* complete (and, in the browser, has resolved), and a started bulk export
\* eventually has processed every enabled item and finished with isExporting
\* false.
C27_ExportsRunToCompletion ==
    /\ SingleStarted ~> (run["single"].st = "resolved")
    /\ QuickStarted ~> QuickCompositeDone
    /\ BulkStarted ~> BulkDone

\* a bulk export of two items has finished, one of its decodes having failed
C27_Witness ==
    /\ BulkDone
    /\ Len(bulk.enabledItems) = 2
    /\ run["bulk"].failed /= {}

-----------------------------------------------------------------------------
(* The save location *)

\* a save task ran in this step
SaveTaskStep == written' /= written /\ written'.by = "handleSave"

\* the project in the editor was opened from ProjectPath and not saved since
OpenedFromPath == openResult.st = "loaded" /\ written.st = "none"

\* the last save was a save-as that wrote the project to written.to
SavedAsToPath == written.st = "written" /\ written.by = "handleSaveAs"

\* the step wrote to path P, or tried to and writeTextFile failed: it neither
\* wrote elsewhere nor ended in a save dialog that was cancelled or threw
SavesTo(P) ==
    /\ written'.st \in {"written", "failed"}
    /\ written'.st = "written" => written'.to = P

\* C28: in the native host a save task that follows the opening of a project
\* from a path, or a save-as to a path, writes the project to that path
\* without a save dialog, whatever layer edits came in between.
C28_SaveGoesToProjectPath ==
    [][(isTauri /\ SaveTaskStep) =>
          /\ OpenedFromPath => SavesTo(ProjectPath)
          /\ SavedAsToPath => SavesTo(written.to)]_vars

=============================================================================
